---------------------------- MODULE Spec2Model ----------------------------
(***************************************************************************)
(* LAN-CHAT (src/main.go, lines 1-869: the password-enabled build).        *)
(*                                                                         *)
(* Go strings are modelled as sequences of byte values (ASCII codes), so   *)
(* that prefix tests, splitting on ':', whitespace trimming and base64     *)
(* are computed the way the code computes them.                            *)
(***************************************************************************)
EXTENDS Integers, Sequences, FiniteSets, Bags, TLC

(***************************************************************************)
(* Byte strings                                                            *)
(***************************************************************************)
EmptyStr == << >>

\* ":"  (separator of every header, src/main.go:746)
Colon == 58
\* "\n" (line terminator, src/main.go:716)
NL == 10
\* "="  (base64 padding)
Pad == 61

S_IAM      == <<73, 65, 77, 58>>                      \* "IAM:"
S_VERIFY   == <<86, 69, 82, 73, 70, 89, 58>>          \* "VERIFY:"
S_VMATCH   == <<86, 77, 65, 84, 67, 72>>              \* "VMATCH"
S_VNOMATCH == <<86, 78, 79, 77, 65, 84, 67, 72>>      \* "VNOMATCH"
S_CHAT     == <<67, 72, 65, 84, 58>>                  \* "CHAT:"
S_ECHAT    == <<69, 67, 72, 65, 84, 58>>              \* "ECHAT:"
S_FILE     == <<70, 73, 76, 69, 58>>                  \* "FILE:"
S_EFILE    == <<69, 70, 73, 76, 69, 58>>              \* "EFILE:"
S_ACCEPTED == <<65, 67, 67, 69, 80, 84, 69, 68>>      \* "ACCEPTED"
\* "LAN-CHAT-VERIFY:"
S_VERIFYNS == <<76, 65, 78, 45, 67, 72, 65, 84, 45, 86, 69, 82, 73, 70, 89, 58>>
\* "[Could not decrypt - password mismatch]"
S_NODECRYPT == <<91, 67, 111, 117, 108, 100, 32, 110, 111, 116, 32, 100, 101,
                 99, 114, 121, 112, 116, 32, 45, 32, 112, 97, 115, 115, 119,
                 111, 114, 100, 32, 109, 105, 115, 109, 97, 116, 99, 104, 93>>
\* "[Encrypted message - no password set]"
S_NOPASS == <<91, 69, 110, 99, 114, 121, 112, 116, 101, 100, 32, 109, 101,
              115, 115, 97, 103, 101, 32, 45, 32, 110, 111, 32, 112, 97, 115,
              115, 119, 111, 114, 100, 32, 115, 101, 116, 93>>
S_CONNECTED == <<67, 111, 110, 110, 101, 99, 116, 101, 100>>  \* "Connected"
\* "New connection"
S_NEWCONN == <<78, 101, 119, 32, 99, 111, 110, 110, 101, 99, 116, 105, 111, 110>>

Drop(s, k) == IF k >= Len(s) THEN << >> ELSE SubSeq(s, k + 1, Len(s))
Take(s, k) == IF k >= Len(s) THEN s ELSE SubSeq(s, 1, k)

\* strings.HasPrefix
HasPrefix(s, p) == Len(s) >= Len(p) /\ SubSeq(s, 1, Len(p)) = p

\* strings.TrimPrefix
TrimPrefix(s, p) == IF HasPrefix(s, p) THEN Drop(s, Len(p)) ELSE s

\* unicode.IsSpace on ASCII: '\t', '\n', '\v', '\f', '\r', ' '
IsSpace(c) == c \in {9, 10, 11, 12, 13, 32}

RECURSIVE TrimLeft(_)
TrimLeft(s) ==
  IF s # << >> /\ IsSpace(Head(s)) THEN TrimLeft(Tail(s)) ELSE s

RECURSIVE TrimRight(_)
TrimRight(s) ==
  IF s # << >> /\ IsSpace(s[Len(s)]) THEN TrimRight(SubSeq(s, 1, Len(s) - 1)) ELSE s

\* strings.TrimSpace
TrimSpace(s) == TrimRight(TrimLeft(s))

\* strings.Index(s, string(c)): position of the first c (1-based), 0 if none
IndexByte(s, c) ==
  IF \E i \in 1..Len(s) : s[i] = c
  THEN CHOOSE i \in 1..Len(s) : s[i] = c /\ \A j \in 1..(i - 1) : s[j] # c
  ELSE 0

\* strings.SplitN(s, ":", 2)
SplitN2(s) ==
  LET i == IndexByte(s, Colon) IN
  IF i = 0 THEN << s >> ELSE << Take(s, i - 1), Drop(s, i) >>

\* bufio.Reader.ReadString('\n') over everything the peer will ever send on
\* the connection: the bytes up to and including the first newline, or, when
\* there is none, all the bytes together with an error (io.EOF).
ReadString(stream) ==
  LET i == IndexByte(stream, NL) IN
  IF i = 0 THEN [line |-> stream, err |-> TRUE, rest |-> << >>]
  ELSE [line |-> Take(stream, i), err |-> FALSE, rest |-> Drop(stream, i)]

RECURSIVE SumSeq(_)
SumSeq(s) == IF s = << >> THEN 0 ELSE Head(s) + SumSeq(Tail(s))

(***************************************************************************)
(* encoding/hex and encoding/base64 (StdEncoding)                          *)
(***************************************************************************)
HexDigit(v) == IF v < 10 THEN 48 + v ELSE 87 + v

RECURSIVE HexEncode(_)
HexEncode(b) ==
  IF b = << >> THEN << >>
  ELSE << HexDigit(Head(b) \div 16), HexDigit(Head(b) % 16) >> \o HexEncode(Tail(b))

B64Char(v) ==
  IF v < 26 THEN 65 + v
  ELSE IF v < 52 THEN 71 + v
  ELSE IF v < 62 THEN v - 4
  ELSE IF v = 62 THEN 43 ELSE 47

B64Val(c) ==
  IF c >= 65 /\ c <= 90 THEN c - 65
  ELSE IF c >= 97 /\ c <= 122 THEN c - 71
  ELSE IF c >= 48 /\ c <= 57 THEN c + 4
  ELSE IF c = 43 THEN 62
  ELSE IF c = 47 THEN 63 ELSE -1

RECURSIVE Base64Encode(_)
Base64Encode(b) ==
  IF b = << >> THEN << >>
  ELSE IF Len(b) = 1 THEN
    << B64Char(b[1] \div 4), B64Char((b[1] % 4) * 16), Pad, Pad >>
  ELSE IF Len(b) = 2 THEN
    << B64Char(b[1] \div 4), B64Char((b[1] % 4) * 16 + b[2] \div 16),
       B64Char((b[2] % 16) * 4), Pad >>
  ELSE
    << B64Char(b[1] \div 4), B64Char((b[1] % 4) * 16 + b[2] \div 16),
       B64Char((b[2] % 16) * 4 + b[3] \div 64), B64Char(b[3] % 64) >>
    \o Base64Encode(Drop(b, 3))

\* a decoder that takes no padding
DecodeQuantum_NoPad(q, last) ==
  LET v == [i \in 1..4 |-> B64Val(q[i])] IN
  IF v[1] >= 0 /\ v[2] >= 0 /\ v[3] >= 0 /\ v[4] >= 0 THEN
    [err |-> FALSE,
     val |-> << v[1] * 4 + v[2] \div 16,
                (v[2] % 16) * 16 + v[3] \div 4,
                (v[3] % 4) * 64 + v[4] >>]
  ELSE [err |-> TRUE, val |-> << >>]

\* one 4-character quantum; padding is accepted in the last quantum only
DecodeQuantum(q, last) ==
  LET v == [i \in 1..4 |-> B64Val(q[i])] IN
  IF v[1] >= 0 /\ v[2] >= 0 /\ v[3] >= 0 /\ v[4] >= 0 THEN
    [err |-> FALSE,
     val |-> << v[1] * 4 + v[2] \div 16,
                (v[2] % 16) * 16 + v[3] \div 4,
                (v[3] % 4) * 64 + v[4] >>]
  ELSE IF last /\ v[1] >= 0 /\ v[2] >= 0 /\ v[3] >= 0 /\ q[4] = Pad THEN
    [err |-> FALSE,
     val |-> << v[1] * 4 + v[2] \div 16, (v[2] % 16) * 16 + v[3] \div 4 >>]
  ELSE IF last /\ v[1] >= 0 /\ v[2] >= 0 /\ q[3] = Pad /\ q[4] = Pad THEN
    [err |-> FALSE, val |-> << v[1] * 4 + v[2] \div 16 >>]
  ELSE [err |-> TRUE, val |-> << >>]

RECURSIVE DecodeQuanta(_)
DecodeQuanta(t) ==
  IF t = << >> THEN [err |-> FALSE, val |-> << >>]
  ELSE IF Len(t) < 4 THEN [err |-> TRUE, val |-> << >>]
  ELSE
    LET q == DecodeQuantum(Take(t, 4), Len(t) = 4)
        r == DecodeQuanta(Drop(t, 4))
    IN IF q.err \/ r.err THEN [err |-> TRUE, val |-> << >>]
       ELSE [err |-> FALSE, val |-> q.val \o r.val]

\* base64.StdEncoding.DecodeString: '\r' and '\n' are skipped
Base64Decode(s) == DecodeQuanta(SelectSeq(s, LAMBDA c : c \notin {10, 13}))

(***************************************************************************)
(* crypto/sha256 and AES-GCM, symbolically.  A digest is two bytes mixed   *)
(* from the input; a sealed box is the masked plaintext followed by a tag  *)
(* that binds the key, the nonce and the ciphertext, so that Open accepts  *)
(* exactly the untampered boxes sealed under the same key.                 *)
(***************************************************************************)
\* gcm.NonceSize(), src/main.go:69 and :90
NonceSize == 12
\* gcm.Overhead(): the tag Seal appends, src/main.go:73
TagSize == 16

RECURSIVE Mix(_, _)
Mix(b, h) == IF b = << >> THEN h ELSE Mix(Tail(b), (h * 33 + Head(b)) % 256)

Sha256(b) == << Mix(b, 5), Mix(b, 131) >>

KeyStream(key, nonce, i) == (key[1] + 3 * key[2] + nonce[1] + i) % 256

GcmTag(key, nonce, ct) ==
  key \o [j \in 1..(TagSize - Len(key)) |->
            (SumSeq(nonce) + SumSeq(ct) + Len(ct) + j) % 256]

\* gcm.Seal(nil, nonce, plaintext, nil)
GcmSeal(key, nonce, pt) ==
  LET ct == [i \in 1..Len(pt) |-> (pt[i] + KeyStream(key, nonce, i)) % 256]
  IN ct \o GcmTag(key, nonce, ct)

\* an Open that does not look at the tag
GcmOpen_NoAuth(key, nonce, box) ==
  IF Len(box) < TagSize THEN [err |-> TRUE, val |-> << >>]
  ELSE
    LET ct == Take(box, Len(box) - TagSize)
    IN [err |-> FALSE,
        val |-> [i \in 1..Len(ct) |->
                   (ct[i] + 256 - KeyStream(key, nonce, i)) % 256]]

\* gcm.Open(nil, nonce, box, nil)
GcmOpen(key, nonce, box) ==
  IF Len(box) < TagSize THEN [err |-> TRUE, val |-> << >>]
  ELSE
    LET ct == Take(box, Len(box) - TagSize)
        tag == Drop(box, Len(box) - TagSize)
    IN IF tag # GcmTag(key, nonce, ct) THEN [err |-> TRUE, val |-> << >>]
       ELSE [err |-> FALSE,
             val |-> [i \in 1..Len(ct) |->
                        (ct[i] + 256 - KeyStream(key, nonce, i)) % 256]]

deriveKey(password) == Sha256(password)

\* rnd is the byte rand.Reader fills the nonce with
encryptData(plaintext, password, rnd) ==
  LET nonce == [i \in 1..NonceSize |-> rnd]
  IN Base64Encode(nonce \o GcmSeal(deriveKey(password), nonce, plaintext))

decryptData(encoded, password) ==
  LET d == Base64Decode(encoded) IN
  IF d.err THEN [err |-> TRUE, val |-> << >>]
  ELSE IF Len(d.val) < NonceSize THEN [err |-> TRUE, val |-> << >>]
  ELSE GcmOpen(deriveKey(password), Take(d.val, NonceSize), Drop(d.val, NonceSize))

passwordFingerprint(password) == HexEncode(Sha256(S_VERIFYNS \o password))

(***************************************************************************)
(* The LAN: two machines running the program and one foreign host          *)
(***************************************************************************)
Nodes == {"n1", "n2"}          \* machines running lan-chat; a node's name is its IP
Ghost == "gh"                  \* any other host of the broadcast domain
Addrs == Nodes \cup {Ghost}

Names == {<<97>>, <<98, 58>>}                \* "a", "b:"  (args[0], src/main.go:837)
Passwords == {<< >>, <<112>>, <<113>>}       \* "", "p", "q"  (--pass, src/main.go:827)
Texts == {<<104>>}                           \* "h"  (the text input's value)
FileNames == {<<102>>}                       \* "f"
FileContents == {<<120>>}                    \* "x"
Rnd == {1}                                   \* bytes rand.Reader may deliver

\* connections that may be open at the same time
MaxConns == 2
\* waitForNetwork receives that may be outstanding at the same time
MaxWaiters == 2
\* cap of the event counters
MaxCount == 2

ConnIds == 1..MaxConns

\* the names the foreign host may announce: those of the machines and "c"
GhostNames == Names \cup {<<99>>}
\* what the foreign host may broadcast
GhostDatagrams ==
  {S_IAM \o nm : nm \in GhostNames} \cup {<<72, 73>>}   \* "IAM:<name>", "HI"
\* what the foreign host may send on a connection it opens (then it closes)
\* "VERIFY:<fingerprint>\n" for the fingerprints of "p" and "q" and for none,
\* and "CHAT:a:h\n"
GhostRequests ==
  {S_VERIFY \o fp \o <<NL>> :
      fp \in {passwordFingerprint(pw) : pw \in Passwords \ {<< >>}} \cup {<< >>}}
  \cup {S_CHAT \o <<97, Colon, 104, NL>>}
\* what the foreign host may answer on a connection it accepted (then it closes)
GhostReplies ==
  {S_VMATCH \o <<NL>>, S_VNOMATCH \o <<NL>>, S_VMATCH, << >>}

(***************************************************************************)
(* Events on netChan (src/main.go:103-107)                                 *)
(***************************************************************************)
NoMsg == [type |-> "none"]
peerUpdateMsg(name, ip, lastMsg) ==
  [type |-> "peerUpdateMsg", name |-> name, ip |-> ip, lastMsg |-> lastMsg]
peerVerifiedMsg(ip, secure) ==
  [type |-> "peerVerifiedMsg", ip |-> ip, secure |-> secure]
chatMsg(sender, content) ==
  [type |-> "chatMsg", sender |-> sender, content |-> content]
transferStatusMsg(what, arg) ==
  [type |-> "transferStatusMsg", what |-> what, arg |-> arg]

VARIABLES
  userName,      \* [Nodes -> string]   args[0]
  password,      \* [Nodes -> string]   --pass ("" = none)
  running,       \* [Nodes -> BOOLEAN]  the process is alive
  tcp,           \* [Nodes -> "init" | "listening" | "failed" | "dead"]  startTCPServer
  udp,           \* [Nodes -> record]   listenUDP: pc, datagram in hand
  discovered,    \* [Nodes -> [known addresses -> name]]  sync.Map of listenUDP
  verifiers,     \* [Nodes -> set of verifyPeer goroutines]
  conns,         \* [ConnIds -> TCP connection with its server-side handler]
  files,         \* [Nodes -> [file names -> content]]  the working directory
  uiState,       \* [Nodes -> 0..4]     model.state
  items,         \* [Nodes -> Seq(item)] model.list
  securePeers,   \* [Nodes -> [addresses -> BOOLEAN]]  model.securePeers
  selectedIP,    \* [Nodes -> address or ""]
  selectedName,  \* [Nodes -> string]
  waiters,       \* [Nodes -> Nat]  waitForNetwork commands blocked on <-ch
  inbox,         \* [Nodes -> bag of messages on their way to Update]
  cmds,          \* [Nodes -> set of running sendChatCmd / sendFileCmd]
  seenCount,     \* [Nodes -> [Addrs -> Nat]] peerUpdateMsg published by listenUDP
  verifyCount,   \* [Nodes -> [Addrs -> Nat]] verifyPeer goroutines spawned
  verifiedCount, \* [Nodes -> [Addrs -> Nat]] peerVerifiedMsg published
  filtering,     \* [Nodes -> BOOLEAN]  m.list.FilterState() == list.Filtering
  keyed,         \* [Nodes -> set of passwords] the passwords that
                 \* passwordFingerprint, encryptData or decryptData were called with
  bench,         \* one application of encryptData and decryptData to drawn inputs
  cli            \* the accept/reject command-line build: pendingConn, connMutex,
                 \* the main loop and the inbound chat requests

cfgVars == <<userName, password>>
uiVars == <<uiState, items, securePeers, selectedIP, selectedName>>
histVars == <<seenCount, verifyCount, verifiedCount>>
\* what only the keyboard, the crypto calls and the crypto bench touch
restVars == <<filtering, keyed, bench, cli>>
vars == <<userName, password, running, tcp, udp, discovered, verifiers, conns,
          files, uiState, items, securePeers, selectedIP, selectedName,
          waiters, inbox, cmds, seenCount, verifyCount, verifiedCount,
          filtering, keyed, bench, cli>>

\* main: passHash is the fingerprint, or "" without a password
passHash(n) ==
  IF password[n] # << >> THEN passwordFingerprint(password[n]) ELSE << >>

\* broadcast: the datagram node n announces itself with
broadcast(n) == S_IAM \o userName[n]

\* the datagrams that may arrive from address src
Datagrams(src) ==
  IF src \in Nodes THEN (IF running[src] THEN {broadcast(src)} ELSE {})
  ELSE GhostDatagrams

\* A connection: cl dialled sv; out and in are the bytes cl and sv have
\* written; h, hname, hmsg are the position, the file name and the pending
\* event of sv's handler.  typed remembers the text the user of cl typed for
\* the chat line in out (history, read by no action).
NoConn == [cl |-> "", sv |-> "", out |-> << >>, cClosed |-> FALSE,
           in |-> << >>, sClosed |-> FALSE,
           h |-> "", hname |-> << >>, hmsg |-> NoMsg, typed |-> << >>]
NewConn(cl, sv, out, closed) ==
  [cl |-> cl, sv |-> sv, out |-> out, cClosed |-> closed,
   in |-> << >>, sClosed |-> FALSE,
   h |-> "wait", hname |-> << >>, hmsg |-> NoMsg, typed |-> << >>]
FreeIds == {i \in ConnIds : conns[i] = NoConn}
NewId == CHOOSE i \in FreeIds : \A j \in FreeIds : i <= j

\* a dial to address a is accepted
Listening(a) == a \in Nodes /\ running[a] /\ tcp[a] = "listening"

Idle == [pc |-> "read", ip |-> "", data |-> << >>]   \* nothing read yet
Unbound == [pc |-> "init", ip |-> "", data |-> << >>]   \* before net.ListenUDP

\* the bench when it is not used
NoBench == [pc |-> "off"]

\* chat requests the command-line build may get
MaxRequests == 3
ReqIds == 1..MaxRequests

\* the command-line build at its start, src/main.go:1581-1590: no pending
\* connection, connMutex free, the main loop at its prompt, no request yet
CliStart ==
  [pendingConn |-> 0, connMutex |-> "free", main |-> "prompt",
   req |-> [r \in ReqIds |-> [pc |-> "none", answer |-> << >>, closed |-> FALSE]]]

\* main and initialModel, src/main.go:840-843 and :169-172: the passwords
\* passwordFingerprint is called with at start
StartKeys(pw) == IF pw # << >> THEN {pw} ELSE {}

\* the state after main has started its goroutines and the program on the
\* machines of `up`; tcp0 and udp0 say how far startTCPServer and listenUDP
\* have come
InitState(up, tcp0, udp0) ==
  /\ userName \in [Nodes -> Names]
  /\ password \in [Nodes -> Passwords]
  /\ running = [n \in Nodes |-> n \in up]
  /\ tcp = [n \in Nodes |-> tcp0]
  /\ udp = [n \in Nodes |-> udp0]
  /\ discovered = [n \in Nodes |-> << >>]
  /\ verifiers = [n \in Nodes |-> {}]
  /\ conns = [i \in ConnIds |-> NoConn]
  /\ files = [n \in Nodes |-> << >>]
  /\ uiState = [n \in Nodes |-> 0]
  /\ items = [n \in Nodes |-> << >>]
  /\ securePeers = [n \in Nodes |-> << >>]
  /\ selectedIP = [n \in Nodes |-> ""]
  /\ selectedName = [n \in Nodes |-> << >>]
  /\ waiters = [n \in Nodes |-> 1]
  /\ inbox = [n \in Nodes |-> EmptyBag]
  /\ cmds = [n \in Nodes |-> {}]
  /\ seenCount = [n \in Nodes |-> [a \in Addrs |-> 0]]
  /\ verifyCount = [n \in Nodes |-> [a \in Addrs |-> 0]]
  /\ verifiedCount = [n \in Nodes |-> [a \in Addrs |-> 0]]
  /\ filtering = [n \in Nodes |-> FALSE]
  /\ keyed = [n \in Nodes |-> IF n \in up THEN StartKeys(password[n]) ELSE {}]
  /\ cli = CliStart

\* the same with the bench off
InitWith(up, tcp0, udp0) == InitState(up, tcp0, udp0) /\ bench = NoBench

\* the same with listenUDP already bound
InitOn(up, tcp0) == InitWith(up, tcp0, Idle)

Init == InitWith(Nodes, "init", Unbound)

(***************************************************************************)
(* Process exit: p.Run returns (tea.Quit) or a goroutine panics.  The      *)
(* kernel closes the process's ends of its connections.                    *)
(***************************************************************************)
ExitConns(n) ==
  [i \in ConnIds |->
     IF conns[i] = NoConn THEN NoConn
     ELSE [conns[i] EXCEPT !.cClosed = @ \/ conns[i].cl = n,
                           !.sClosed = @ \/ conns[i].sv = n]]

(***************************************************************************)
(* startTCPServer: net.Listen                                              *)
(***************************************************************************)
TCPListen(n) ==
  /\ running[n] /\ tcp[n] = "init"
  /\ tcp' = [tcp EXCEPT ![n] = "listening"]
  /\ UNCHANGED <<cfgVars, restVars, running, udp, discovered, verifiers, conns, files,
                 uiVars, waiters, inbox, cmds, histVars>>

\* net.Listen fails, src/main.go:707: the server stands at its send of the
\* status "TCP listen error: ..."
TCPListenFail(n) ==
  /\ running[n] /\ tcp[n] = "init"
  /\ tcp' = [tcp EXCEPT ![n] = "failed"]
  /\ UNCHANGED <<cfgVars, restVars, running, udp, discovered, verifiers, conns, files,
                 uiVars, waiters, inbox, cmds, histVars>>

\* that send is received and startTCPServer returns, src/main.go:708-709
TCPFailPublish(n) ==
  /\ running[n] /\ tcp[n] = "failed" /\ waiters[n] > 0
  /\ waiters' = [waiters EXCEPT ![n] = @ - 1]
  /\ inbox' = [inbox EXCEPT ![n] =
                 @ (+) SetToBag({transferStatusMsg("TCP listen error: ", << >>)})]
  /\ tcp' = [tcp EXCEPT ![n] = "dead"]
  /\ UNCHANGED <<cfgVars, restVars, running, udp, discovered, verifiers, conns, files,
                 uiVars, cmds, histVars>>

(***************************************************************************)
(* listenUDP                                                               *)
(***************************************************************************)
\* net.ListenUDP succeeds, src/main.go:798
UDPListen(n) ==
  /\ running[n] /\ udp[n].pc = "init"
  /\ udp' = [udp EXCEPT ![n].pc = "read"]
  /\ UNCHANGED <<cfgVars, restVars, running, tcp, discovered, verifiers, conns, files,
                 uiVars, waiters, inbox, cmds, histVars>>

\* net.ListenUDP fails, src/main.go:799: the listener stands at its send of
\* the status "UDP listen error: ..."
UDPListenFail(n) ==
  /\ running[n] /\ udp[n].pc = "init"
  /\ udp' = [udp EXCEPT ![n].pc = "failed"]
  /\ UNCHANGED <<cfgVars, restVars, running, tcp, discovered, verifiers, conns, files,
                 uiVars, waiters, inbox, cmds, histVars>>

\* that send is received and listenUDP returns, src/main.go:800-801
UDPFailPublish(n) ==
  /\ running[n] /\ udp[n].pc = "failed" /\ waiters[n] > 0
  /\ waiters' = [waiters EXCEPT ![n] = @ - 1]
  /\ inbox' = [inbox EXCEPT ![n] =
                 @ (+) SetToBag({transferStatusMsg("UDP listen error: ", << >>)})]
  /\ udp' = [udp EXCEPT ![n].pc = "dead"]
  /\ UNCHANGED <<cfgVars, restVars, running, tcp, discovered, verifiers, conns, files,
                 uiVars, cmds, histVars>>

\* a listener without the self-filter
IsOwnName_Off(pName, myName) == FALSE

\* the self-filter, src/main.go:810
IsOwnName(pName, myName) == pName = myName

\* a plain Store: the key is reported new every time
LoadOrStore_Store(m, k, v) ==
  [map |-> [a \in DOMAIN m \cup {k} |-> IF a = k THEN v ELSE m[a]],
   seen |-> FALSE]

\* sync.Map.LoadOrStore: the map afterwards, and whether the key was there
LoadOrStore(m, k, v) ==
  IF k \in DOMAIN m THEN [map |-> m, seen |-> TRUE]
  ELSE [map |-> [a \in DOMAIN m \cup {k} |-> IF a = k THEN v ELSE m[a]],
        seen |-> FALSE]

\* conn.ReadFromUDP returns a datagram and the loop body runs up to the send
\* on netChan, or to the next ReadFromUDP when nothing is to be published.
\* udp[n].ip and udp[n].data are rAddr and buf[:n], kept until the next read.
\* `from` are the addresses whose datagrams reach n.
UDPReceive(n, from) ==
  /\ running[n] /\ udp[n].pc = "read"
  /\ \E ip \in from : \E msg \in Datagrams(ip) :
       LET pName == Drop(msg, Len(S_IAM))
           r == LoadOrStore(discovered[n], ip, pName)
       IN IF HasPrefix(msg, S_IAM) /\ ~IsOwnName(pName, userName[n])
          THEN /\ discovered' = [discovered EXCEPT ![n] = r.map]
               /\ udp' = [udp EXCEPT ![n] =
                            [pc |-> IF r.seen THEN "read" ELSE "send",
                             ip |-> ip, data |-> msg]]
          ELSE /\ udp' = [udp EXCEPT ![n] = [pc |-> "read", ip |-> ip, data |-> msg]]
               /\ UNCHANGED discovered
  /\ UNCHANGED <<cfgVars, restVars, running, tcp, verifiers, conns, files,
                 uiVars, waiters, inbox, cmds, histVars>>

\* a listener that verifies every new peer, password or not
SpawnsVerify_Always(ph) == TRUE

\* whether the listener spawns verifyPeer for a new peer, src/main.go:816
SpawnsVerify(ph) == ph # << >>

NewVerifier(ip) == [ip |-> ip, pc |-> "dial", conn |-> 0, secure |-> FALSE]

\* netChan <- peerUpdateMsg is received; then go verifyPeer
UDPPublish(n) ==
  /\ running[n] /\ udp[n].pc = "send" /\ waiters[n] > 0
  /\ seenCount[n][udp[n].ip] < MaxCount
  /\ waiters' = [waiters EXCEPT ![n] = @ - 1]
  /\ inbox' = [inbox EXCEPT ![n] =
                 @ (+) SetToBag({peerUpdateMsg(Drop(udp[n].data, Len(S_IAM)),
                                               udp[n].ip, S_CONNECTED)})]
  /\ seenCount' = [seenCount EXCEPT ![n][udp[n].ip] = @ + 1]
  /\ IF SpawnsVerify(passHash(n))
     THEN /\ verifiers' = [verifiers EXCEPT ![n] = @ \cup {NewVerifier(udp[n].ip)}]
          /\ verifyCount' = [verifyCount EXCEPT ![n][udp[n].ip] = @ + 1]
     ELSE UNCHANGED <<verifiers, verifyCount>>
  /\ udp' = [udp EXCEPT ![n].pc = "read"]
  /\ UNCHANGED <<cfgVars, restVars, running, tcp, discovered, conns, files,
                 uiVars, cmds, verifiedCount>>

(***************************************************************************)
(* verifyPeer                                                              *)
(***************************************************************************)
\* a verifier that takes any response line for a match
VerifyResult_AnyLine(resp) == ~resp.err

\* the outcome of the response read, src/main.go:646-654
VerifyResult(resp) == ~resp.err /\ TrimSpace(resp.line) = S_VMATCH

\* net.DialTimeout, then Fprintf "VERIFY:<passHash>\n"
VerifyDial(n, v) ==
  /\ running[n] /\ v \in verifiers[n] /\ v.pc = "dial"
  /\ \/ /\ Listening(v.ip) \/ v.ip = Ghost
        /\ FreeIds # {}
        /\ conns' = [conns EXCEPT ![NewId] =
                       NewConn(n, v.ip, S_VERIFY \o passHash(n) \o <<NL>>, FALSE)]
        /\ verifiers' = [verifiers EXCEPT ![n] =
                           (@ \ {v}) \cup {[v EXCEPT !.pc = "read", !.conn = NewId]}]
     \/ /\ ~Listening(v.ip)
        /\ verifiers' = [verifiers EXCEPT ![n] =
                           (@ \ {v}) \cup {[v EXCEPT !.pc = "send", !.secure = FALSE]}]
        /\ UNCHANGED conns
  /\ UNCHANGED <<cfgVars, restVars, running, tcp, udp, discovered, files,
                 uiVars, waiters, inbox, cmds, histVars>>

\* verifyPeer stands at ReadString('\n'), src/main.go:646, and the read can
\* return: a line has arrived or the server has closed
AnswerArrived(n, v) ==
  /\ running[n] /\ v \in verifiers[n] /\ v.pc = "read"
  /\ ~ReadString(conns[v.conn].in).err \/ conns[v.conn].sClosed

\* bufio.NewReader(conn).ReadString('\n') returns
VerifyRead(n, v) ==
  /\ AnswerArrived(n, v)
  /\ LET resp == ReadString(conns[v.conn].in) IN
       /\ verifiers' = [verifiers EXCEPT ![n] =
             (@ \ {v}) \cup {[v EXCEPT !.pc = "send", !.secure = VerifyResult(resp)]}]
  /\ UNCHANGED <<cfgVars, restVars, running, tcp, udp, discovered, conns, files,
                 uiVars, waiters, inbox, cmds, histVars>>

\* netChan <- peerVerifiedMsg is received; the deferred conn.Close runs
VerifyPublish(n, v) ==
  /\ running[n] /\ v \in verifiers[n] /\ v.pc = "send" /\ waiters[n] > 0
  /\ verifiedCount[n][v.ip] < MaxCount
  /\ waiters' = [waiters EXCEPT ![n] = @ - 1]
  /\ inbox' = [inbox EXCEPT ![n] = @ (+) SetToBag({peerVerifiedMsg(v.ip, v.secure)})]
  /\ verifiedCount' = [verifiedCount EXCEPT ![n][v.ip] = @ + 1]
  /\ verifiers' = [verifiers EXCEPT ![n] = @ \ {v}]
  /\ conns' = IF v.conn = 0 THEN conns
              ELSE [conns EXCEPT ![v.conn].cClosed = TRUE]
  /\ UNCHANGED <<cfgVars, restVars, running, tcp, udp, discovered, files,
                 uiVars, cmds, seenCount, verifyCount>>

(***************************************************************************)
(* startTCPServer: the handler of one accepted connection                  *)
(***************************************************************************)
\* a comparison that accepts every pair
ConstantTimeCompare_Accept(a, b) == TRUE

\* subtle.ConstantTimeCompare(a, b) == 1
ConstantTimeCompare(a, b) == a = b

\* the VERIFY branch without the test that a password is configured
VerifyReply_NoGuard(ph, header) ==
  LET remoteHash == TrimSpace(TrimPrefix(header, S_VERIFY)) IN
  IF ConstantTimeCompare(remoteHash, ph)
  THEN S_VMATCH \o <<NL>> ELSE S_VNOMATCH \o <<NL>>

\* the VERIFY branch, src/main.go:770-778: the line written back
VerifyReply(ph, header) ==
  LET remoteHash == TrimSpace(TrimPrefix(header, S_VERIFY)) IN
  IF ph # << >> /\ ConstantTimeCompare(remoteHash, ph)
  THEN S_VMATCH \o <<NL>> ELSE S_VNOMATCH \o <<NL>>

\* the CHAT branch, src/main.go:745-749: the events published
ChatEvents(header) ==
  LET parts == SplitN2(Drop(header, Len(S_CHAT))) IN
  IF Len(parts) = 2 THEN {chatMsg(parts[1], TrimSpace(parts[2]))} ELSE {}

\* the step of decryptData that fails on a blob, "none" when it opens
FailureCause(encoded, pw) ==
  LET d == Base64Decode(encoded) IN
  IF d.err THEN "base64"
  ELSE IF Len(d.val) < NonceSize THEN "short"
  ELSE IF GcmOpen(deriveKey(pw), Take(d.val, NonceSize),
                  Drop(d.val, NonceSize)).err THEN "auth"
  ELSE "none"

\* an ECHAT branch that stays silent on a blob that is not base64
EChatEvents_Oracle(header, pw) ==
  LET parts == SplitN2(Drop(header, Len(S_ECHAT))) IN
  IF Len(parts) # 2 THEN {}
  ELSE LET sender == parts[1]
           payload == TrimSpace(parts[2])
           d == decryptData(payload, pw)
       IN IF pw # << >>
          THEN (IF d.err
                THEN (IF FailureCause(payload, pw) = "base64" THEN {}
                      ELSE {chatMsg(sender, S_NODECRYPT)})
                ELSE {chatMsg(sender, d.val)})
          ELSE {chatMsg(sender, S_NOPASS)}

\* the ECHAT branch, src/main.go:750-769: the events published
EChatEvents(header, pw) ==
  LET parts == SplitN2(Drop(header, Len(S_ECHAT))) IN
  IF Len(parts) # 2 THEN {}
  ELSE LET sender == parts[1]
           payload == TrimSpace(parts[2])
           d == decryptData(payload, pw)
       IN IF pw # << >>
          THEN (IF d.err THEN {chatMsg(sender, S_NODECRYPT)}
                ELSE {chatMsg(sender, d.val)})
          ELSE {chatMsg(sender, S_NOPASS)}

\* an ECHAT branch that calls decryptData without looking at the password
EChatKeys_Unguarded(header, pw) ==
  IF Len(SplitN2(Drop(header, Len(S_ECHAT)))) = 2 THEN {pw} ELSE {}

\* the ECHAT branch, src/main.go:752-757: the passwords decryptData is
\* called with
EChatKeys(header, pw) ==
  IF Len(SplitN2(Drop(header, Len(S_ECHAT)))) = 2 /\ pw # << >> THEN {pw} ELSE {}

\* the EFILE branch, src/main.go:729-730: the passwords decryptData is
\* called with
EFileKeys(pw) == IF pw # << >> THEN {pw} ELSE {}

\* sendChatCmd and sendFileCmd, src/main.go:664-666 and :687-693: the
\* passwords encryptData is called with
SendKeys(enc, pw) == IF enc THEN {pw} ELSE {}

S_RECEIVED == <<114, 101, 99, 101, 105, 118, 101, 100, 95>>   \* "received_"

\* os.Create(name) followed by writes of data and Close
WriteFile(dir, name, data) ==
  [f \in DOMAIN dir \cup {name} |-> IF f = name THEN data ELSE dir[f]]

\* a handler that says ACCEPTED before it closes
Finished_Reply(c) ==
  [c EXCEPT !.h = "done", !.sClosed = TRUE, !.in = S_ACCEPTED \o <<NL>>]

\* the deferred c.Close runs: the handler is over
Finished(c) == [c EXCEPT !.h = "done", !.sClosed = TRUE]

\* a VERIFY branch that reports the request on netChan before it answers
VerifyHandled_ViaBus(c, reply) ==
  [c EXCEPT !.h = "send", !.hmsg = transferStatusMsg("Verify request: ", << >>)]

\* the VERIFY branch, src/main.go:770-779: the reply is written and the
\* handler is over; netChan is not used
VerifyHandled(c, reply) == Finished([c EXCEPT !.in = reply])

\* the handler of c stands at reader.ReadString('\n'), src/main.go:716, and
\* the read can return: a line has arrived or the client has closed
HeaderArrived(c) ==
  /\ conns[c] # NoConn /\ conns[c].sv \in Nodes /\ running[conns[c].sv]
  /\ conns[c].h = "wait"
  /\ ~ReadString(conns[c].out).err \/ conns[c].cClosed

\* reader.ReadString('\n') returns; the branch on the header runs up to the
\* point where the handler next blocks (payload read, send on netChan) or ends
Handle(c) ==
  LET n == conns[c].sv
      r == ReadString(conns[c].out)
      header == r.line
  IN
  /\ HeaderArrived(c)
  /\ IF HasPrefix(header, S_FILE) THEN
       LET name == TrimSpace(TrimPrefix(header, S_FILE)) IN
       /\ conns' = [conns EXCEPT ![c].in = S_ACCEPTED \o <<NL>>,
                                 ![c].h = "copy", ![c].hname = name]
       /\ files' = [files EXCEPT ![n] = WriteFile(@, S_RECEIVED \o name, << >>)]
     ELSE IF HasPrefix(header, S_EFILE) THEN
       LET name == TrimSpace(TrimPrefix(header, S_EFILE)) IN
       /\ conns' = [conns EXCEPT ![c].in = S_ACCEPTED \o <<NL>>,
                                 ![c].h = "ecopy", ![c].hname = name]
       /\ UNCHANGED files
     ELSE IF HasPrefix(header, S_CHAT) \/ HasPrefix(header, S_ECHAT) THEN
       LET evs == IF HasPrefix(header, S_CHAT) THEN ChatEvents(header)
                  ELSE EChatEvents(header, password[n])
       IN
       /\ conns' = [conns EXCEPT ![c] =
                      IF evs = {} THEN Finished(@)
                      ELSE [@ EXCEPT !.h = "send",
                                     !.hmsg = CHOOSE e \in evs : TRUE]]
       /\ UNCHANGED files
     ELSE IF HasPrefix(header, S_VERIFY) THEN
       /\ conns' = [conns EXCEPT ![c] =
                      VerifyHandled(@, VerifyReply(passHash(n), header))]
       /\ UNCHANGED files
     ELSE
       /\ conns' = [conns EXCEPT ![c] = Finished(@)]
       /\ UNCHANGED files
  /\ keyed' = [keyed EXCEPT ![n] =
                 @ \cup (IF HasPrefix(header, S_ECHAT)
                         THEN EChatKeys(header, password[n]) ELSE {})]
  /\ UNCHANGED <<cfgVars, filtering, bench, cli, running, tcp, udp, discovered, verifiers,
                 uiVars, waiters, inbox, cmds, histVars>>

\* the EFILE branch after io.ReadAll, src/main.go:729-744:
\* the status published and the directory afterwards
EFileOutcome(dir, name, encoded, pw) ==
  LET d == decryptData(encoded, pw) IN
  IF pw # << >> THEN
    IF d.err
    THEN [msg |-> transferStatusMsg("Failed to decrypt file: ", name), dir |-> dir]
    ELSE [msg |-> transferStatusMsg("Received (encrypted): ", name),
          dir |-> WriteFile(dir, S_RECEIVED \o name, d.val)]
  ELSE [msg |-> transferStatusMsg("Encrypted file received but no password set: ", name),
        dir |-> dir]

\* io.Copy / io.ReadAll return: the client closed its end
HandlerCopy(c) ==
  LET n == conns[c].sv
      payload == ReadString(conns[c].out).rest
      name == conns[c].hname
  IN
  /\ conns[c] # NoConn /\ n \in Nodes /\ running[n]
  /\ conns[c].h \in {"copy", "ecopy"} /\ conns[c].cClosed
  /\ IF conns[c].h = "copy" THEN
       /\ files' = [files EXCEPT ![n] = WriteFile(@, S_RECEIVED \o name, payload)]
       /\ conns' = [conns EXCEPT ![c].h = "send",
                                 ![c].hmsg = transferStatusMsg("Received: ", name)]
     ELSE
       LET o == EFileOutcome(files[n], name, payload, password[n]) IN
       /\ files' = [files EXCEPT ![n] = o.dir]
       /\ conns' = [conns EXCEPT ![c].h = "send", ![c].hmsg = o.msg]
  /\ keyed' = [keyed EXCEPT ![n] =
                 @ \cup (IF conns[c].h = "ecopy" THEN EFileKeys(password[n]) ELSE {})]
  /\ UNCHANGED <<cfgVars, filtering, bench, cli, running, tcp, udp, discovered, verifiers,
                 uiVars, waiters, inbox, cmds, histVars>>

\* the handler's send on netChan is received; the deferred c.Close runs
HandlerPublish(c) ==
  LET n == conns[c].sv IN
  /\ conns[c] # NoConn /\ n \in Nodes /\ running[n]
  /\ conns[c].h = "send" /\ waiters[n] > 0
  /\ waiters' = [waiters EXCEPT ![n] = @ - 1]
  /\ inbox' = [inbox EXCEPT ![n] = @ (+) SetToBag({conns[c].hmsg})]
  /\ conns' = [conns EXCEPT ![c] = Finished(@)]
  /\ UNCHANGED <<cfgVars, restVars, running, tcp, udp, discovered, verifiers, files,
                 uiVars, cmds, histVars>>

\* both ends are closed: the connection is gone
Reap(c) ==
  /\ conns[c] # NoConn /\ conns[c].cClosed /\ conns[c].sClosed
  /\ conns' = [conns EXCEPT ![c] = NoConn]
  /\ UNCHANGED <<cfgVars, restVars, running, tcp, udp, discovered, verifiers, files,
                 uiVars, waiters, inbox, cmds, histVars>>

(***************************************************************************)
(* The foreign host                                                        *)
(***************************************************************************)
\* the foreign host connects; it leaves one connection to the program's dials
GhostConnect(n) ==
  /\ Listening(n) /\ Cardinality(FreeIds) > 1
  /\ \E raw \in GhostRequests :
       conns' = [conns EXCEPT ![NewId] = NewConn(Ghost, n, raw, TRUE)]
  /\ UNCHANGED <<cfgVars, restVars, running, tcp, udp, discovered, verifiers, files,
                 uiVars, waiters, inbox, cmds, histVars>>

GhostServe(c) ==
  /\ conns[c] # NoConn /\ conns[c].sv = Ghost /\ ~conns[c].sClosed
  /\ \E reply \in GhostReplies :
       conns' = [conns EXCEPT ![c].in = reply, ![c].sClosed = TRUE]
  /\ UNCHANGED <<cfgVars, restVars, running, tcp, udp, discovered, verifiers, files,
                 uiVars, waiters, inbox, cmds, histVars>>

\* what a foreign client may send before it closes: a plain file "f", the
\* file "g" encrypted under "p" or under "q" or as bytes that are no base64,
\* a chat of "a" encrypted under "p" or as bytes that are no base64, a
\* line of no known kind, a plain chat of "a", and a chat and a file header
\* that the newline never follows
InboundRequests ==
  LET p == <<112>>
      q == <<113>>
      junk == <<33, 33>>
      short == <<65, 65, 65, 65>>
  IN {S_FILE \o <<102, NL>> \o <<120>>,
      S_EFILE \o <<103, NL>> \o encryptData(<<120>>, p, 1),
      S_EFILE \o <<103, NL>> \o encryptData(<<120>>, q, 1),
      S_EFILE \o <<103, NL>> \o junk,
      S_ECHAT \o <<97, Colon>> \o encryptData(<<104>>, p, 1) \o <<NL>>,
      S_ECHAT \o <<97, Colon>> \o junk \o <<NL>>,
      S_ECHAT \o <<97, Colon>> \o short \o <<NL>>,
      <<72, 69, 76, 76, 79, NL>>,
      S_CHAT \o <<97, Colon, 104, NL>>,
      S_CHAT \o <<97, Colon, 104>>,
      S_FILE \o <<102>>}

\* the foreign host connects, sends one of them and closes its end
GhostSend(n) ==
  /\ Listening(n) /\ Cardinality(FreeIds) > 1
  /\ \E raw \in InboundRequests :
       conns' = [conns EXCEPT ![NewId] = NewConn(Ghost, n, raw, TRUE)]
  /\ UNCHANGED <<cfgVars, restVars, running, tcp, udp, discovered, verifiers, files,
                 uiVars, waiters, inbox, cmds, histVars>>

(***************************************************************************)
(* model.Update: events from the network                                   *)
(***************************************************************************)
Item(title, desc, lastMsg, secure) ==
  [title |-> title, desc |-> desc, lastMsg |-> lastMsg, secure |-> secure]

\* index of the first item whose desc is ip, 0 if none
IndexByDesc(its, ip) ==
  IF \E i \in 1..Len(its) : its[i].desc = ip
  THEN CHOOSE i \in 1..Len(its) :
         its[i].desc = ip /\ \A j \in 1..(i - 1) : its[j].desc # ip
  ELSE 0

\* index of the first item whose title is name, 0 if none
IndexByTitle(its, name) ==
  IF \E i \in 1..Len(its) : its[i].title = name
  THEN CHOOSE i \in 1..Len(its) :
         its[i].title = name /\ \A j \in 1..(i - 1) : its[j].title # name
  ELSE 0

\* a peerUpdateMsg case that inserts without looking for the address
UpdatePeer_Insert(its, msg) ==
  <<Item(msg.name, msg.ip, S_NEWCONN, FALSE)>> \o its

\* case peerUpdateMsg, src/main.go:266-281: the list afterwards
UpdatePeer(its, msg) ==
  LET i == IndexByDesc(its, msg.ip) IN
  IF i # 0 THEN [its EXCEPT ![i].lastMsg = msg.lastMsg]
  ELSE <<Item(msg.name, msg.ip, S_NEWCONN, FALSE)>> \o its

\* case peerVerifiedMsg, src/main.go:287-295: the list afterwards
SetSecure(its, msg) ==
  LET i == IndexByDesc(its, msg.ip) IN
  IF i # 0 THEN [its EXCEPT ![i].secure = msg.secure] ELSE its

\* case peerVerifiedMsg, src/main.go:286: m.securePeers[msg.ip] = msg.secure
StoreSecure(m, msg) ==
  [a \in DOMAIN m \cup {msg.ip} |-> IF a = msg.ip THEN msg.secure ELSE m[a]]

\* case chatMsg, src/main.go:303-309: the messages the returned command yields
ChatPreview(its, msg) ==
  LET i == IndexByTitle(its, msg.sender) IN
  IF i # 0 THEN {peerUpdateMsg(msg.sender, its[i].desc, msg.content)} ELSE {}

\* Update takes one message; for a network event it re-arms waitForNetwork
\* in every case except a chatMsg, whose command yields a peerUpdateMsg
\* when the sender's name is in the list and nothing otherwise
Deliver(n) ==
  /\ running[n]
  /\ \E msg \in BagToSet(inbox[n]) :
       LET rest == inbox[n] (-) SetToBag({msg}) IN
       CASE msg.type = "peerUpdateMsg" ->
              /\ items' = [items EXCEPT ![n] = UpdatePeer(@, msg)]
              /\ waiters' = [waiters EXCEPT ![n] = @ + 1]
              /\ inbox' = [inbox EXCEPT ![n] = rest]
              /\ UNCHANGED <<securePeers, uiState>>
         [] msg.type = "peerVerifiedMsg" ->
              /\ securePeers' = [securePeers EXCEPT ![n] = StoreSecure(@, msg)]
              /\ items' = [items EXCEPT ![n] = SetSecure(@, msg)]
              /\ waiters' = [waiters EXCEPT ![n] = @ + 1]
              /\ inbox' = [inbox EXCEPT ![n] = rest]
              /\ UNCHANGED uiState
         [] msg.type = "chatMsg" ->
              /\ inbox' = [inbox EXCEPT ![n] = rest (+) SetToBag(ChatPreview(items[n], msg))]
              /\ UNCHANGED <<items, securePeers, uiState, waiters>>
         [] msg.type = "transferStatusMsg" ->
              /\ uiState' = [uiState EXCEPT ![n] = 0]
              /\ waiters' = [waiters EXCEPT ![n] = @ + 1]
              /\ inbox' = [inbox EXCEPT ![n] = rest]
              /\ UNCHANGED <<items, securePeers>>
  /\ UNCHANGED <<cfgVars, restVars, running, tcp, udp, discovered, verifiers, conns, files,
                 selectedIP, selectedName, cmds, histVars>>

(***************************************************************************)
(* model.Update: keys                                                      *)
(***************************************************************************)
\* receives that are outstanding or will be re-armed
Potential(n) == waiters[n] + BagCardinality(inbox[n]) + Cardinality(cmds[n])

NewCmd(kind, ip, text, fname, fdata) ==
  [kind |-> kind, ip |-> ip, text |-> text, fname |-> fname, fdata |-> fdata,
   pc |-> "dial", conn |-> 0, enc |-> FALSE]

\* "enter" on the list (state 0) that is not filtering: open the chat with
\* the selected peer
KeyEnterList(n) ==
  /\ running[n] /\ uiState[n] = 0 /\ ~filtering[n]
  /\ \E i \in 1..Len(items[n]) :
       /\ selectedIP' = [selectedIP EXCEPT ![n] = items[n][i].desc]
       /\ selectedName' = [selectedName EXCEPT ![n] = items[n][i].title]
  /\ uiState' = [uiState EXCEPT ![n] = 3]
  /\ UNCHANGED <<cfgVars, restVars, running, tcp, udp, discovered, verifiers, conns, files,
                 items, securePeers, waiters, inbox, cmds, histVars>>

\* "enter" in the chat (state 3) with a non-empty input: sendChatCmd(text)
KeyEnterChat(n) ==
  /\ running[n] /\ uiState[n] = 3 /\ Potential(n) < MaxWaiters
  /\ \E text \in Texts :
       cmds' = [cmds EXCEPT ![n] =
                  @ \cup {NewCmd("chat", selectedIP[n], text, << >>, << >>)}]
  /\ UNCHANGED <<cfgVars, restVars, running, tcp, udp, discovered, verifiers, conns, files,
                 uiVars, waiters, inbox, histVars>>

\* "f" on the list (state 0): open the file picker for the selected peer
KeyF(n) ==
  /\ running[n] /\ uiState[n] = 0
  /\ \E i \in 1..Len(items[n]) :
       /\ selectedIP' = [selectedIP EXCEPT ![n] = items[n][i].desc]
       /\ selectedName' = [selectedName EXCEPT ![n] = items[n][i].title]
  /\ uiState' = [uiState EXCEPT ![n] = 1]
  /\ UNCHANGED <<cfgVars, restVars, running, tcp, udp, discovered, verifiers, conns, files,
                 items, securePeers, waiters, inbox, cmds, histVars>>

\* the file picker (state 1) reports a selected file: sendFileCmd(path)
PickFile(n) ==
  /\ running[n] /\ uiState[n] = 1 /\ Potential(n) < MaxWaiters
  /\ \E fname \in FileNames : \E fdata \in FileContents :
       cmds' = [cmds EXCEPT ![n] =
                  @ \cup {NewCmd("file", selectedIP[n], << >>, fname, fdata)}]
  /\ uiState' = [uiState EXCEPT ![n] = 2]
  /\ UNCHANGED <<cfgVars, restVars, running, tcp, udp, discovered, verifiers, conns, files,
                 items, securePeers, selectedIP, selectedName,
                 waiters, inbox, histVars>>

\* "c" on the list (state 0): the config screen
KeyC(n) ==
  /\ running[n] /\ uiState[n] = 0
  /\ uiState' = [uiState EXCEPT ![n] = 4]
  /\ UNCHANGED <<cfgVars, restVars, running, tcp, udp, discovered, verifiers, conns, files,
                 items, securePeers, selectedIP, selectedName,
                 waiters, inbox, cmds, histVars>>

\* an "esc" that quits wherever it is pressed
EscOutcome_Quit(state, filt) ==
  [state |-> state, filtering |-> filt, quit |-> TRUE]

\* case "esc", src/main.go:211-228: while the list is filtering the key is
\* left to m.list.Update (src/main.go:360), which ends the filtering; on the
\* list otherwise it quits; elsewhere it goes back to the list
EscOutcome(state, filt) ==
  IF state = 0 /\ filt THEN [state |-> 0, filtering |-> FALSE, quit |-> FALSE]
  ELSE IF state = 0 THEN [state |-> 0, filtering |-> filt, quit |-> TRUE]
  ELSE [state |-> 0, filtering |-> filt, quit |-> FALSE]

\* "esc"
KeyEsc(n) ==
  LET o == EscOutcome(uiState[n], filtering[n]) IN
  /\ running[n]
  /\ uiState' = [uiState EXCEPT ![n] = o.state]
  /\ filtering' = [filtering EXCEPT ![n] = o.filtering]
  /\ IF o.quit
     THEN running' = [running EXCEPT ![n] = FALSE] /\ conns' = ExitConns(n)
     ELSE UNCHANGED <<running, conns>>
  /\ UNCHANGED <<cfgVars, keyed, bench, cli, tcp, udp, discovered, verifiers, files,
                 items, securePeers, selectedIP, selectedName,
                 waiters, inbox, cmds, histVars>>

\* "/" on the list (state 0): m.list.Update starts the filtering
KeySlash(n) ==
  /\ running[n] /\ uiState[n] = 0 /\ ~filtering[n]
  /\ filtering' = [filtering EXCEPT ![n] = TRUE]
  /\ UNCHANGED <<cfgVars, keyed, bench, cli, running, tcp, udp, discovered, verifiers,
                 conns, files, uiVars, waiters, inbox, cmds, histVars>>

\* "enter" on the list while it is filtering, src/main.go:245-247: the key is
\* left to m.list.Update, which ends the filtering
KeyEnterFilter(n) ==
  /\ running[n] /\ uiState[n] = 0 /\ filtering[n]
  /\ filtering' = [filtering EXCEPT ![n] = FALSE]
  /\ UNCHANGED <<cfgVars, keyed, bench, cli, running, tcp, udp, discovered, verifiers,
                 conns, files, uiVars, waiters, inbox, cmds, histVars>>

\* "ctrl+c", src/main.go:209-210: tea.Quit, p.Run returns and main ends
Quit(n) ==
  /\ running[n]
  /\ running' = [running EXCEPT ![n] = FALSE]
  /\ conns' = ExitConns(n)
  /\ UNCHANGED <<cfgVars, restVars, tcp, udp, discovered, verifiers, files,
                 uiVars, waiters, inbox, cmds, histVars>>

(***************************************************************************)
(* sendChatCmd and sendFileCmd                                             *)
(***************************************************************************)
\* m.securePeers[ip]: a missing key reads as false
IsSecure(m, ip) == ip \in DOMAIN m /\ m[ip]

\* a sender that encrypts whenever it has a password, whatever the flag
Encrypts_PasswordOnly(pw, m, ip) == pw # << >>

\* the condition of src/main.go:664 and :687
Encrypts(pw, m, ip) == pw # << >> /\ IsSecure(m, ip)

\* the line sendChatCmd writes, src/main.go:664-675
ChatLine(enc, user, text, pw, rnd) ==
  IF enc THEN S_ECHAT \o user \o <<Colon>> \o encryptData(text, pw, rnd) \o <<NL>>
  ELSE S_CHAT \o user \o <<Colon>> \o text \o <<NL>>

\* the header sendFileCmd writes, src/main.go:687-697
FileHeader(enc, fname) ==
  IF enc THEN S_EFILE \o fname \o <<NL>> ELSE S_FILE \o fname \o <<NL>>

\* the payload sendFileCmd writes, src/main.go:692-699
FilePayload(enc, fdata, pw, rnd) ==
  IF enc THEN encryptData(fdata, pw, rnd) ELSE fdata

\* sendChatCmd: net.DialTimeout
ChatDial(n, k) ==
  /\ running[n] /\ k \in cmds[n] /\ k.kind = "chat" /\ k.pc = "dial"
  /\ \/ /\ Listening(k.ip) \/ k.ip = Ghost
        /\ FreeIds # {}
        /\ conns' = [conns EXCEPT ![NewId] = NewConn(n, k.ip, << >>, FALSE)]
        /\ cmds' = [cmds EXCEPT ![n] =
                      (@ \ {k}) \cup {[k EXCEPT !.pc = "write", !.conn = NewId]}]
        /\ UNCHANGED inbox
     \/ /\ ~Listening(k.ip)
        /\ cmds' = [cmds EXCEPT ![n] = @ \ {k}]
        /\ inbox' = [inbox EXCEPT ![n] =
                       @ (+) SetToBag({transferStatusMsg("Chat error: ", << >>)})]
        /\ UNCHANGED conns
  /\ UNCHANGED <<cfgVars, restVars, running, tcp, udp, discovered, verifiers, files,
                 uiVars, waiters, histVars>>

\* sendChatCmd: the secure flag is read, the line written, the connection closed
ChatWrite(n, k) ==
  /\ running[n] /\ k \in cmds[n] /\ k.kind = "chat" /\ k.pc = "write"
  /\ \E rnd \in Rnd :
       conns' = [conns EXCEPT
         ![k.conn].out = ChatLine(Encrypts(password[n], securePeers[n], k.ip),
                                  userName[n], k.text, password[n], rnd),
         ![k.conn].typed = k.text,
         ![k.conn].cClosed = TRUE]
  /\ cmds' = [cmds EXCEPT ![n] = @ \ {k}]
  /\ keyed' = [keyed EXCEPT ![n] =
                 @ \cup SendKeys(Encrypts(password[n], securePeers[n], k.ip),
                                 password[n])]
  /\ UNCHANGED <<cfgVars, filtering, bench, cli, running, tcp, udp, discovered, verifiers,
                 files, uiVars, waiters, inbox, histVars>>

\* sendFileCmd: net.Dial; its error is dropped and the deferred conn.Close
\* on the nil connection panics
FileDial(n, k) ==
  /\ running[n] /\ k \in cmds[n] /\ k.kind = "file" /\ k.pc = "dial"
  /\ \/ /\ Listening(k.ip) \/ k.ip = Ghost
        /\ FreeIds # {}
        /\ conns' = [conns EXCEPT ![NewId] = NewConn(n, k.ip, << >>, FALSE)]
        /\ cmds' = [cmds EXCEPT ![n] =
                      (@ \ {k}) \cup {[k EXCEPT !.pc = "header", !.conn = NewId]}]
        /\ UNCHANGED running
     \/ /\ ~Listening(k.ip)
        /\ running' = [running EXCEPT ![n] = FALSE]
        /\ conns' = ExitConns(n)
        /\ UNCHANGED cmds
  /\ UNCHANGED <<cfgVars, restVars, tcp, udp, discovered, verifiers, files,
                 uiVars, waiters, inbox, histVars>>

\* sendFileCmd: the secure flag is read and the header written
FileWriteHeader(n, k) ==
  /\ running[n] /\ k \in cmds[n] /\ k.kind = "file" /\ k.pc = "header"
  /\ LET enc == Encrypts(password[n], securePeers[n], k.ip) IN
       /\ conns' = [conns EXCEPT ![k.conn].out = FileHeader(enc, k.fname)]
       /\ cmds' = [cmds EXCEPT ![n] =
                     (@ \ {k}) \cup {[k EXCEPT !.pc = "ack", !.enc = enc]}]
  /\ UNCHANGED <<cfgVars, restVars, running, tcp, udp, discovered, verifiers, files,
                 uiVars, waiters, inbox, histVars>>

\* sendFileCmd: ReadString('\n') returns (a line or an error, neither is
\* looked at), the payload is written, the connection closed, "Sent" returned
FileSend(n, k) ==
  /\ running[n] /\ k \in cmds[n] /\ k.kind = "file" /\ k.pc = "ack"
  /\ ~ReadString(conns[k.conn].in).err \/ conns[k.conn].sClosed
  /\ \E rnd \in Rnd :
       conns' = [conns EXCEPT
         ![k.conn].out = @ \o FilePayload(k.enc, k.fdata, password[n], rnd),
         ![k.conn].cClosed = TRUE]
  /\ cmds' = [cmds EXCEPT ![n] = @ \ {k}]
  /\ inbox' = [inbox EXCEPT ![n] =
                 @ (+) SetToBag({transferStatusMsg("Sent: ", k.fname)})]
  /\ keyed' = [keyed EXCEPT ![n] = @ \cup SendKeys(k.enc, password[n])]
  /\ UNCHANGED <<cfgVars, filtering, bench, cli, running, tcp, udp, discovered, verifiers,
                 files, uiVars, waiters, histVars>>

(***************************************************************************)
(* m.securePeers is one Go map behind every copy of the model: the         *)
(* commands sendChatCmd and sendFileCmd return read it on their own         *)
(* goroutines, Update writes it on the event loop's, and nothing orders the *)
(* two.                                                                     *)
(***************************************************************************)
\* the commands of n whose next step evaluates m.securePeers[m.selectedIP],
\* src/main.go:664 and :687 (not evaluated without a password)
MapReaders(n) ==
  {k \in cmds[n] :
     /\ password[n] # << >>
     /\ \/ k.kind = "chat" /\ k.pc = "write"
        \/ k.kind = "file" /\ k.pc = "header"}

\* the events whose handling assigns m.securePeers[msg.ip], src/main.go:286
MapWriters(n) == {e \in BagToSet(inbox[n]) : e.type = "peerVerifiedMsg"}

\* the read and the write overlap and the runtime notices: "fatal error:
\* concurrent map read and map write", the process exits.  (When it does not
\* notice, the read sees the map before or after the write: ChatWrite or
\* FileWriteHeader before or after Deliver.)
MapFault(n) ==
  /\ running[n] /\ MapReaders(n) # {} /\ MapWriters(n) # {}
  /\ running' = [running EXCEPT ![n] = FALSE]
  /\ conns' = ExitConns(n)
  /\ UNCHANGED <<cfgVars, restVars, tcp, udp, discovered, verifiers, files,
                 uiVars, waiters, inbox, cmds, histVars>>

Next ==
  \/ \E n \in Nodes : MapFault(n)
  \/ \E n \in Nodes : TCPListen(n)
  \/ \E n \in Nodes : TCPListenFail(n)
  \/ \E n \in Nodes : TCPFailPublish(n)
  \/ \E n \in Nodes : UDPListen(n)
  \/ \E n \in Nodes : UDPListenFail(n)
  \/ \E n \in Nodes : UDPFailPublish(n)
  \/ \E n \in Nodes : UDPReceive(n, Addrs)
  \/ \E n \in Nodes : UDPPublish(n)
  \/ \E n \in Nodes : \E v \in verifiers[n] : VerifyDial(n, v)
  \/ \E n \in Nodes : \E v \in verifiers[n] : VerifyRead(n, v)
  \/ \E n \in Nodes : \E v \in verifiers[n] : VerifyPublish(n, v)
  \/ \E c \in ConnIds : Handle(c)
  \/ \E c \in ConnIds : HandlerCopy(c)
  \/ \E c \in ConnIds : HandlerPublish(c)
  \/ \E c \in ConnIds : Reap(c)
  \/ \E n \in Nodes : GhostConnect(n)
  \/ \E c \in ConnIds : GhostServe(c)
  \/ \E n \in Nodes : Deliver(n)
  \/ \E n \in Nodes : KeyEnterList(n)
  \/ \E n \in Nodes : KeyEnterChat(n)
  \/ \E n \in Nodes : KeyF(n)
  \/ \E n \in Nodes : PickFile(n)
  \/ \E n \in Nodes : KeyC(n)
  \/ \E n \in Nodes : KeyEsc(n)
  \/ \E n \in Nodes : KeySlash(n)
  \/ \E n \in Nodes : KeyEnterFilter(n)
  \/ \E n \in Nodes : Quit(n)
  \/ \E n \in Nodes : \E k \in cmds[n] : ChatDial(n, k)
  \/ \E n \in Nodes : \E k \in cmds[n] : ChatWrite(n, k)
  \/ \E n \in Nodes : \E k \in cmds[n] : FileDial(n, k)
  \/ \E n \in Nodes : \E k \in cmds[n] : FileWriteHeader(n, k)
  \/ \E n \in Nodes : \E k \in cmds[n] : FileSend(n, k)

\* the whole LAN: both machines, their users and the foreign host
Spec == Init /\ [][Next]_vars

(***************************************************************************)
(* One machine facing the LAN: "n1" runs, "n2" was never started, the      *)
(* foreign host broadcasts, connects and answers; nobody is at the         *)
(* keyboard.                                                               *)
(***************************************************************************)
InitSolo ==
  /\ InitOn({"n1"}, "init")
  /\ userName["n2"] = <<97>> /\ password["n2"] = << >>

NextSolo ==
  \/ TCPListen("n1")
  \/ UDPReceive("n1", Addrs)
  \/ UDPPublish("n1")
  \/ \E v \in verifiers["n1"] : VerifyDial("n1", v)
  \/ \E v \in verifiers["n1"] : VerifyRead("n1", v)
  \/ \E v \in verifiers["n1"] : VerifyPublish("n1", v)
  \/ \E c \in ConnIds : Handle(c)
  \/ \E c \in ConnIds : HandlerPublish(c)
  \/ \E c \in ConnIds : Reap(c)
  \/ GhostConnect("n1")
  \/ \E c \in ConnIds : GhostServe(c)
  \/ Deliver("n1")

SpecSolo == InitSolo /\ [][NextSolo]_vars

\* The same machine under a scheduler that is fair to verifyPeer and to
\* Update, facing a foreign host that always answers: a verifier that can
\* dial or read does, one blocked on its send on netChan gets through if a
\* receive keeps turning up, and Update handles what waitForNetwork took.
FairSolo ==
  /\ SpecSolo
  /\ WF_vars(\E v \in verifiers["n1"] : VerifyDial("n1", v))
  /\ WF_vars(\E v \in verifiers["n1"] : VerifyRead("n1", v))
  /\ SF_vars(\E v \in verifiers["n1"] : VerifyPublish("n1", v))
  /\ WF_vars(\E c \in ConnIds : GhostServe(c))
  /\ WF_vars(Deliver("n1"))

(***************************************************************************)
(* Two machines on a quiet LAN: both run and listen, a machine does not    *)
(* hear its own broadcast, the user of "n1" chats and sends files, the     *)
(* user of "n2" only watches and is called "a".  Up to the choice of the   *)
(* password strings, the five password settings are all there are.        *)
(***************************************************************************)
InitPair ==
  /\ InitOn(Nodes, "listening")
  /\ password["n1"] \in {<< >>, <<112>>}
  /\ userName["n2"] = <<97>>

NextPair ==
  \/ \E n \in Nodes : UDPReceive(n, Nodes \ {n})
  \/ \E n \in Nodes : UDPPublish(n)
  \/ \E n \in Nodes : \E v \in verifiers[n] : VerifyDial(n, v)
  \/ \E n \in Nodes : \E v \in verifiers[n] : VerifyRead(n, v)
  \/ \E n \in Nodes : \E v \in verifiers[n] : VerifyPublish(n, v)
  \/ \E c \in ConnIds : Handle(c)
  \/ \E c \in ConnIds : HandlerCopy(c)
  \/ \E c \in ConnIds : HandlerPublish(c)
  \/ \E c \in ConnIds : Reap(c)
  \/ \E n \in Nodes : Deliver(n)
  \/ KeyEnterList("n1")
  \/ KeyEnterChat("n1")
  \/ KeyF("n1")
  \/ PickFile("n1")
  \/ \E k \in cmds["n1"] : ChatDial("n1", k)
  \/ \E k \in cmds["n1"] : ChatWrite("n1", k)
  \/ \E k \in cmds["n1"] : FileDial("n1", k)
  \/ \E k \in cmds["n1"] : FileWriteHeader("n1", k)
  \/ \E k \in cmds["n1"] : FileSend("n1", k)

SpecPair == InitPair /\ [][NextPair]_vars

(***************************************************************************)
(* Two machines without passwords: "a" on "n1" chats to "b:" on "n2".      *)
(* The scheduler is fair to the handlers and to Update on "n2": a handler  *)
(* blocked on its send on netChan gets through if a receive keeps turning  *)
(* up, and Update handles what waitForNetwork took.                        *)
(***************************************************************************)
InitChat ==
  /\ InitOn(Nodes, "listening")
  /\ userName = [n \in Nodes |-> IF n = "n1" THEN <<97>> ELSE <<98, 58>>]
  /\ password = [n \in Nodes |-> << >>]

NextChat ==
  \/ \E n \in Nodes : UDPReceive(n, Nodes \ {n})
  \/ \E n \in Nodes : UDPPublish(n)
  \/ \E c \in ConnIds : Handle(c)
  \/ \E c \in ConnIds : HandlerPublish(c)
  \/ \E c \in ConnIds : Reap(c)
  \/ \E n \in Nodes : Deliver(n)
  \/ KeyEnterList("n1")
  \/ KeyEnterChat("n1")
  \/ \E k \in cmds["n1"] : ChatDial("n1", k)
  \/ \E k \in cmds["n1"] : ChatWrite("n1", k)

FairChat ==
  /\ InitChat /\ [][NextChat]_vars
  /\ \A c \in ConnIds : SF_vars(HandlerPublish(c))
  /\ WF_vars(Deliver("n2"))

(***************************************************************************)
(* One machine, listening, that foreign clients send files and chats to.   *)
(***************************************************************************)
InitInbound ==
  /\ InitOn({"n1"}, "listening")
  /\ userName = [n \in Nodes |-> <<97>>]
  /\ password["n2"] = << >>

NextInbound ==
  \/ GhostSend("n1")
  \/ \E c \in ConnIds : Handle(c)
  \/ \E c \in ConnIds : HandlerCopy(c)
  \/ \E c \in ConnIds : HandlerPublish(c)
  \/ \E c \in ConnIds : Reap(c)
  \/ Deliver("n1")

SpecInbound == InitInbound /\ [][NextInbound]_vars

\* a sender blocked on netChan is served when receives keep coming, and the
\* program handles every event it has received
FairInbound ==
  /\ SpecInbound
  /\ \A c \in ConnIds : SF_vars(HandlerPublish(c))
  /\ WF_vars(Deliver("n1"))

(***************************************************************************)
(* One machine without a password and its user, who chats and sends files  *)
(* to the foreign host; the host announces itself and accepts or refuses   *)
(* the connections.  Nobody quits.                                         *)
(***************************************************************************)
InitUser ==
  /\ InitOn({"n1"}, "listening")
  /\ userName = [n \in Nodes |-> <<97>>]
  /\ password = [n \in Nodes |-> << >>]

NextSend ==
  \/ UDPReceive("n1", {Ghost})
  \/ UDPPublish("n1")
  \/ Deliver("n1")
  \/ KeyF("n1")
  \/ PickFile("n1")
  \/ KeyEnterList("n1")
  \/ KeyEnterChat("n1")
  \/ \E k \in cmds["n1"] : ChatDial("n1", k)
  \/ \E k \in cmds["n1"] : ChatWrite("n1", k)
  \/ \E k \in cmds["n1"] : FileDial("n1", k)
  \/ \E k \in cmds["n1"] : FileWriteHeader("n1", k)
  \/ \E k \in cmds["n1"] : FileSend("n1", k)
  \/ \E c \in ConnIds : GhostServe(c)
  \/ \E c \in ConnIds : Reap(c)

SpecSend == InitUser /\ [][NextSend]_vars

(***************************************************************************)
(* The same machine with its user at all the keys the program reads.       *)
(***************************************************************************)
NextKeys ==
  \/ UDPReceive("n1", {Ghost})
  \/ UDPPublish("n1")
  \/ Deliver("n1")
  \/ KeySlash("n1")
  \/ KeyEnterFilter("n1")
  \/ KeyEsc("n1")
  \/ Quit("n1")
  \/ KeyC("n1")
  \/ KeyF("n1")
  \/ PickFile("n1")
  \/ KeyEnterList("n1")
  \/ KeyEnterChat("n1")

SpecKeys == InitUser /\ [][NextKeys]_vars

(***************************************************************************)
(* One machine without a password from the moment main has started its     *)
(* goroutines: each listener binds or fails to; the foreign host announces *)
(* itself and sends chats and VERIFY requests.                             *)
(***************************************************************************)
InitBind ==
  /\ InitWith({"n1"}, "init", Unbound)
  /\ userName = [n \in Nodes |-> <<98, 58>>]
  /\ password = [n \in Nodes |-> << >>]

NextBind ==
  \/ TCPListen("n1")
  \/ TCPListenFail("n1")
  \/ TCPFailPublish("n1")
  \/ UDPListen("n1")
  \/ UDPListenFail("n1")
  \/ UDPFailPublish("n1")
  \/ UDPReceive("n1", {Ghost})
  \/ UDPPublish("n1")
  \/ GhostConnect("n1")
  \/ \E c \in ConnIds : Handle(c)
  \/ \E c \in ConnIds : HandlerPublish(c)
  \/ \E c \in ConnIds : Reap(c)
  \/ Deliver("n1")

SpecBind == InitBind /\ [][NextBind]_vars

\* a listener blocked on its send on netChan is served when receives keep
\* coming, and the program handles every event it has received
FairBind ==
  /\ SpecBind
  /\ SF_vars(TCPFailPublish("n1"))
  /\ SF_vars(UDPFailPublish("n1"))
  /\ WF_vars(Deliver("n1"))

(***************************************************************************)
(* The machine "n1" with the password "p" and its user between two peers:  *)
(* "n2", which announces itself and whose port 8080 refuses connections,   *)
(* and the foreign host, which announces itself and answers.  The user     *)
(* chats.                                                                  *)
(***************************************************************************)
InitRoster ==
  /\ InitWith(Nodes, "dead", Idle)
  /\ userName = [n \in Nodes |-> IF n = "n1" THEN <<98, 58>> ELSE <<97>>]
  /\ password = [n \in Nodes |-> IF n = "n1" THEN <<112>> ELSE << >>]

NextRoster ==
  \/ UDPReceive("n1", {"n2", Ghost})
  \/ UDPPublish("n1")
  \/ \E v \in verifiers["n1"] : VerifyDial("n1", v)
  \/ \E v \in verifiers["n1"] : VerifyRead("n1", v)
  \/ \E v \in verifiers["n1"] : VerifyPublish("n1", v)
  \/ \E c \in ConnIds : GhostServe(c)
  \/ \E c \in ConnIds : Reap(c)
  \/ Deliver("n1")
  \/ KeyEnterList("n1")
  \/ KeyEnterChat("n1")
  \/ \E k \in cmds["n1"] : ChatDial("n1", k)
  \/ \E k \in cmds["n1"] : ChatWrite("n1", k)

SpecRoster == InitRoster /\ [][NextRoster]_vars

(***************************************************************************)
(* One machine with the password "p" and its user; the foreign host        *)
(* announces itself, answers the VERIFY request and accepts or refuses the *)
(* chats and files the user sends it.                                      *)
(***************************************************************************)
InitRace ==
  /\ InitOn({"n1"}, "listening")
  /\ userName = [n \in Nodes |-> <<97>>]
  /\ password = [n \in Nodes |-> IF n = "n1" THEN <<112>> ELSE << >>]

NextRace ==
  \/ UDPReceive("n1", {Ghost})
  \/ UDPPublish("n1")
  \/ \E v \in verifiers["n1"] : VerifyDial("n1", v)
  \/ \E v \in verifiers["n1"] : VerifyRead("n1", v)
  \/ \E v \in verifiers["n1"] : VerifyPublish("n1", v)
  \/ \E c \in ConnIds : GhostServe(c)
  \/ \E c \in ConnIds : Reap(c)
  \/ Deliver("n1")
  \/ KeyEnterList("n1")
  \/ KeyEnterChat("n1")
  \/ KeyF("n1")
  \/ PickFile("n1")
  \/ \E k \in cmds["n1"] : ChatDial("n1", k)
  \/ \E k \in cmds["n1"] : ChatWrite("n1", k)
  \/ \E k \in cmds["n1"] : FileDial("n1", k)
  \/ \E k \in cmds["n1"] : FileWriteHeader("n1", k)
  \/ \E k \in cmds["n1"] : FileSend("n1", k)
  \/ MapFault("n1")

SpecRace == InitRace /\ [][NextRace]_vars

(***************************************************************************)
(* Two machines with passwords, "b:" on "n1" and "a" on "n2", that         *)
(* discover and verify each other while the foreign host sends chats and    *)
(* VERIFY requests to "n2".                                                 *)
(***************************************************************************)
InitMutual ==
  /\ InitOn(Nodes, "listening")
  /\ userName = [n \in Nodes |-> IF n = "n1" THEN <<98, 58>> ELSE <<97>>]
  /\ password["n1"] = <<112>> /\ password["n2"] \in {<<112>>, <<113>>}

NextMutual ==
  \/ \E n \in Nodes : UDPReceive(n, Nodes \ {n})
  \/ \E n \in Nodes : UDPPublish(n)
  \/ \E n \in Nodes : \E v \in verifiers[n] : VerifyDial(n, v)
  \/ \E n \in Nodes : \E v \in verifiers[n] : VerifyRead(n, v)
  \/ \E n \in Nodes : \E v \in verifiers[n] : VerifyPublish(n, v)
  \/ GhostConnect("n2")
  \/ \E c \in ConnIds : Handle(c)
  \/ \E c \in ConnIds : HandlerPublish(c)
  \/ \E c \in ConnIds : Reap(c)
  \/ \E n \in Nodes : Deliver(n)

SpecMutual == InitMutual /\ [][NextMutual]_vars

(***************************************************************************)
(* One machine, listening, that foreign clients send files and chats to    *)
(* while its user opens and leaves the config screen.  The user sends      *)
(* nothing: every status comes from a connection handler.                  *)
(***************************************************************************)
NextScreens ==
  \/ GhostSend("n1")
  \/ \E c \in ConnIds : Handle(c)
  \/ \E c \in ConnIds : HandlerCopy(c)
  \/ \E c \in ConnIds : HandlerPublish(c)
  \/ \E c \in ConnIds : Reap(c)
  \/ Deliver("n1")
  \/ KeyC("n1")
  \/ KeyEsc("n1")

SpecScreens == InitInbound /\ [][NextScreens]_vars

(***************************************************************************)
(* encryptData and decryptData on their own: a payload, the password to    *)
(* encrypt with, the password to decrypt with and the nonce byte are       *)
(* drawn; the payload is encrypted, and what came out is decrypted.        *)
(***************************************************************************)
\* longest payload drawn
MaxPayload == 2
\* the byte values payloads are made of
PayloadBytes == {0, 104, 255}
Payloads == UNION {[1..k -> PayloadBytes] : k \in 0..MaxPayload}
\* the nonce bytes rand.Reader may deliver
BenchRnd == {1, 255}

BenchInputs ==
  [pc : {"drawn"}, b : Payloads, p1 : Passwords, p2 : Passwords, rnd : BenchRnd,
   enc : {<< >>}, dec : {[err |-> FALSE, val |-> << >>]}]

InitCrypto ==
  /\ InitState({}, "init", Unbound)
  /\ userName = [n \in Nodes |-> <<97>>]
  /\ password = [n \in Nodes |-> << >>]
  /\ bench \in BenchInputs

\* encryptData(b, p1)
BenchEncrypt ==
  /\ bench.pc = "drawn"
  /\ bench' = [bench EXCEPT !.pc = "sealed",
                            !.enc = encryptData(bench.b, bench.p1, bench.rnd)]
  /\ UNCHANGED <<cfgVars, filtering, keyed, cli, running, tcp, udp, discovered, verifiers,
                 conns, files, uiVars, waiters, inbox, cmds, histVars>>

\* decryptData(encoded, p2) on what encryptData returned
BenchDecrypt ==
  /\ bench.pc = "sealed"
  /\ bench' = [bench EXCEPT !.pc = "opened",
                            !.dec = decryptData(bench.enc, bench.p2)]
  /\ UNCHANGED <<cfgVars, filtering, keyed, cli, running, tcp, udp, discovered, verifiers,
                 conns, files, uiVars, waiters, inbox, cmds, histVars>>

NextCrypto == BenchEncrypt \/ BenchDecrypt

SpecCrypto == InitCrypto /\ [][NextCrypto]_vars

(***************************************************************************)
(* The accept/reject command-line build (src/main.go:1562-1819): every     *)
(* inbound connection whose first line is no FILE: header is parked in the *)
(* one variable pendingConn until the user types accept or reject.         *)
(***************************************************************************)
S_REJECTED == <<82, 69, 74, 69, 67, 84, 69, 68>>       \* "REJECTED"

\* a client connects and sends a line that is no FILE: header; the handler
\* reads it and stands at connMutex.Lock(), src/main.go:1726-1739
LegacyRequest(r) ==
  /\ cli.req[r].pc = "none"
  /\ cli' = [cli EXCEPT !.req[r].pc = "lock"]
  /\ UNCHANGED <<cfgVars, filtering, keyed, bench, running, tcp, udp, discovered,
                 verifiers, conns, files, uiVars, waiters, inbox, cmds, histVars>>

\* pendingConn = c, src/main.go:1740: pendingConn afterwards
ParkRequest(pending, r) == r

\* the handler gets connMutex, parks its connection and unlocks,
\* src/main.go:1739-1742
LegacyPark(r) ==
  /\ cli.req[r].pc = "lock" /\ cli.connMutex = "free"
  /\ cli' = [cli EXCEPT !.req[r].pc = "parked",
                        !.pendingConn = ParkRequest(cli.pendingConn, r)]
  /\ UNCHANGED <<cfgVars, filtering, keyed, bench, running, tcp, udp, discovered,
                 verifiers, conns, files, uiVars, waiters, inbox, cmds, histVars>>

\* "accept" with a pending connection, src/main.go:1654-1666: ACCEPTED is
\* written and runChatSession starts, connMutex held
handleAccept ==
  /\ cli.main = "prompt" /\ cli.connMutex = "free" /\ cli.pendingConn # 0
  /\ cli' = [cli EXCEPT !.req[cli.pendingConn].answer = S_ACCEPTED,
                        !.main = "session", !.connMutex = "main"]
  /\ UNCHANGED <<cfgVars, filtering, keyed, bench, running, tcp, udp, discovered,
                 verifiers, conns, files, uiVars, waiters, inbox, cmds, histVars>>

\* runChatSession returns (".exit"), src/main.go:1667: pendingConn = nil and
\* the deferred Unlock
SessionEnds ==
  /\ cli.main = "session"
  /\ cli' = [cli EXCEPT !.pendingConn = 0, !.main = "prompt", !.connMutex = "free"]
  /\ UNCHANGED <<cfgVars, filtering, keyed, bench, running, tcp, udp, discovered,
                 verifiers, conns, files, uiVars, waiters, inbox, cmds, histVars>>

\* "reject" with a pending connection, src/main.go:1670-1681
handleReject ==
  /\ cli.main = "prompt" /\ cli.connMutex = "free" /\ cli.pendingConn # 0
  /\ cli' = [cli EXCEPT !.req[cli.pendingConn].answer = S_REJECTED,
                        !.req[cli.pendingConn].closed = TRUE,
                        !.pendingConn = 0]
  /\ UNCHANGED <<cfgVars, filtering, keyed, bench, running, tcp, udp, discovered,
                 verifiers, conns, files, uiVars, waiters, inbox, cmds, histVars>>

InitLegacy ==
  /\ InitWith({}, "init", Unbound)
  /\ userName = [n \in Nodes |-> <<97>>]
  /\ password = [n \in Nodes |-> << >>]

NextLegacy ==
  \/ \E r \in ReqIds : LegacyRequest(r)
  \/ \E r \in ReqIds : LegacyPark(r)
  \/ handleAccept
  \/ SessionEnds
  \/ handleReject

SpecLegacy == InitLegacy /\ [][NextLegacy]_vars

(***************************************************************************)
(* Properties                                                              *)
(***************************************************************************)
Line(str) == str \o <<NL>>

\* what a connection carries, by the first line its client wrote
IsChat(c) == HasPrefix(c.out, S_CHAT) \/ HasPrefix(c.out, S_ECHAT)
IsEncrypted(c) == HasPrefix(c.out, S_ECHAT) \/ HasPrefix(c.out, S_EFILE)
IsVerify(c) == HasPrefix(c.out, S_VERIFY)

\* the fingerprint between "VERIFY:" and the newline of a request
RequestFingerprint(out) == SubSeq(out, Len(S_VERIFY) + 1, Len(out) - 1)

\* both machines are configured with the same non-empty password
SamePassword ==
  password["n1"] = password["n2"] /\ password["n1"] # << >>

\* sendChatCmd of n writes its line on connection c in this step
ChatWritten(n, c) ==
  /\ conns[c].cl = n /\ conns[c].out = << >>
  /\ conns'[c].cl = n /\ IsChat(conns'[c])

\* C1: with the same non-empty password on both machines, every VERIFY
\* exchange is answered VMATCH, its result is secure=true and the address is
\* then marked secure; a chat written once the address is marked secure is
\* framed ECHAT; and the chat event the receiver publishes for an ECHAT line
\* carries exactly the text the sender typed.
C1_SecureScenario ==
  /\ [](SamePassword =>
         /\ \A c \in ConnIds :
              (conns[c].sv \in Nodes /\ IsVerify(conns[c]) /\ conns[c].h = "done")
                => conns[c].in = Line(S_VMATCH)
         /\ \A n \in Nodes : \A v \in verifiers[n] : v.pc = "send" => v.secure
         /\ \A n \in Nodes : \A a \in DOMAIN securePeers[n] : securePeers[n][a]
         /\ \A c \in ConnIds :
              (conns[c].h = "send" /\ HasPrefix(conns[c].out, S_ECHAT))
                => conns[c].hmsg.content = conns[c].typed)
  /\ [][SamePassword =>
          \A n \in Nodes : \A c \in ConnIds :
             (ChatWritten(n, c) /\ IsSecure(securePeers[n], conns'[c].sv))
               => HasPrefix(conns'[c].out, S_ECHAT)]_vars

\* C2: when a has a password and b has another password or none, a's
\* verification of b never yields secure=true (neither in the verifier, nor
\* in a published peerVerifiedMsg, nor in a's securePeers), and no connection
\* from a to b carries an ECHAT: or EFILE: line.
C2_MismatchStaysPlain ==
  \A a \in Nodes : \A b \in Nodes \ {a} :
    (password[a] # << >> /\ password[b] # password[a]) =>
      /\ \A v \in verifiers[a] : (v.ip = b /\ v.pc = "send") => ~v.secure
      /\ \A m \in BagToSet(inbox[a]) :
           (m.type = "peerVerifiedMsg" /\ m.ip = b) => ~m.secure
      /\ ~IsSecure(securePeers[a], b)
      /\ \A c \in ConnIds :
           (conns[c].cl = a /\ conns[c].sv = b) => ~IsEncrypted(conns[c])

\* C2 happens: "n1" has a password, "n2" another or none, the verification
\* of "n2" has been published and handled, and a chat line went out to "n2"
C2_Witness ==
  /\ password["n1"] # << >> /\ password["n2"] # password["n1"]
  /\ verifiedCount["n1"]["n2"] = 1
  /\ "n2" \in DOMAIN securePeers["n1"]
  /\ \E c \in ConnIds :
       conns[c].cl = "n1" /\ conns[c].sv = "n2" /\ HasPrefix(conns[c].out, S_CHAT)

\* C3: a VERIFY:<fingerprint> request gets no reply before it is handled and
\* exactly one line once it is: VMATCH if and only if a password is
\* configured and the fingerprint is the local one, VNOMATCH otherwise.
C3_VerifyReplyRule ==
  \A c \in ConnIds :
    (conns[c].sv = "n1" /\ IsVerify(conns[c])) =>
      \/ conns[c].h = "wait" /\ conns[c].in = << >>
      \/ /\ conns[c].h = "done"
         /\ conns[c].in =
              IF /\ password["n1"] # << >>
                 /\ RequestFingerprint(conns[c].out) = passwordFingerprint(password["n1"])
              THEN Line(S_VMATCH) ELSE Line(S_VNOMATCH)

\* C3 happens: a node with password "p" has answered the fingerprint of "q"
C3_Witness ==
  /\ password["n1"] = <<112>>
  /\ \E c \in ConnIds :
       /\ conns[c].sv = "n1" /\ conns[c].h = "done"
       /\ conns[c].out = Line(S_VERIFY \o passwordFingerprint(<<113>>))
       /\ conns[c].in = Line(S_VNOMATCH)

\* C4: a node without a password answers VNOMATCH to every VERIFY request
\* it handles, the one with an empty fingerprint included.
C4_NoPasswordNoMatch ==
  password["n1"] = << >> =>
    \A c \in ConnIds :
      (conns[c].sv = "n1" /\ IsVerify(conns[c]) /\ conns[c].h = "done")
        => conns[c].in = Line(S_VNOMATCH)

\* C4 happens: a node without a password has answered "VERIFY:\n"
C4_Witness ==
  /\ password["n1"] = << >>
  /\ \E c \in ConnIds :
       /\ conns[c].sv = "n1" /\ conns[c].h = "done"
       /\ conns[c].out = Line(S_VERIFY)
       /\ conns[c].in = Line(S_VNOMATCH)

\* C5: every verifyPeer attempt ends in one published peerVerifiedMsg for
\* its address (never more than one), and the result it is about to publish
\* is secure exactly when it dialled and read the line VMATCH.
C5_VerifyTerminates ==
  /\ [](\A a \in Addrs : verifiedCount["n1"][a] <= verifyCount["n1"][a])
  /\ [](\A v \in verifiers["n1"] :
          v.pc = "send" =>
            (v.secure <=> (v.conn # 0 /\ conns[v.conn].in = Line(S_VMATCH))))
  /\ (verifyCount["n1"][Ghost] = 1) ~> (verifiedCount["n1"][Ghost] = 1)

\* C6: for every address, at most one peer-seen event is published and at
\* most one verifyPeer is spawned, however often the address announces.
C6_OncePerAddress ==
  \A a \in Addrs : seenCount["n1"][a] <= 1 /\ verifyCount["n1"][a] <= 1

\* C6 happens: the listener has handled an announcement from an address it
\* knew already (under another name), after the event and the verification
\* of its first announcement
C6_Witness ==
  LET u == udp["n1"] IN
  /\ u.pc = "read" /\ HasPrefix(u.data, S_IAM)
  /\ u.ip \in DOMAIN discovered["n1"]
  /\ Drop(u.data, Len(S_IAM)) # discovered["n1"][u.ip]
  /\ Drop(u.data, Len(S_IAM)) # userName["n1"]
  /\ seenCount["n1"][u.ip] = 1 /\ verifyCount["n1"][u.ip] = 1

\* C7: the peer list never holds two entries with the same address.
C7_OneEntryPerAddress ==
  \A i, j \in 1..Len(items["n1"]) :
    i # j => items["n1"][i].desc # items["n1"][j].desc

\* C7 happens: the list has handled the peer-seen, the peer-verified and a
\* chat event of one address
C7_Witness ==
  \E i \in 1..Len(items["n1"]) :
    /\ items["n1"][i].lastMsg \in Texts
    /\ items["n1"][i].desc \in DOMAIN securePeers["n1"]

\* C8: once the listener has handled an announcement IAM:<name> (name not
\* the local one), the record of the sending address carries that name.
C8_LatestName ==
  LET u == udp["n1"]
      pName == Drop(u.data, Len(S_IAM))
  IN (HasPrefix(u.data, S_IAM) /\ pName # userName["n1"])
       => discovered["n1"][u.ip] = pName

\* the listener takes a datagram carrying the node's own name in this step
OwnNameReceived ==
  /\ udp["n1"].pc = "read"
  /\ udp'["n1"] # udp["n1"]
  /\ udp'["n1"].data = S_IAM \o userName["n1"]

\* C9: the step in which the listener handles an announcement of the node's
\* own name leaves the listener at its read and changes no peer record, no
\* event (published or pending), no verifier, no connection and no list.
C9_OwnNameIgnored ==
  [][OwnNameReceived =>
       /\ udp'["n1"].pc = "read"
       /\ UNCHANGED <<discovered, verifiers, conns, inbox, waiters,
                      items, securePeers, seenCount, verifyCount,
                      verifiedCount>>]_vars

\* C9 happens: the listener has handled an own-name announcement that came
\* from the foreign host's address
C9_Witness ==
  /\ udp["n1"].data = S_IAM \o userName["n1"]
  /\ udp["n1"].ip = Ghost
  /\ udp["n1"].pc = "read"

\* C10: on a node without a password no address and no list entry is marked
\* secure, no verifyPeer was ever spawned or is running, and no connection it
\* opened carries a VERIFY:, ECHAT: or EFILE: line.
C10_NoPasswordAllPlain ==
  \A n \in Nodes :
    password[n] = << >> =>
      /\ \A a \in DOMAIN securePeers[n] : ~securePeers[n][a]
      /\ \A i \in 1..Len(items[n]) : ~items[n][i].secure
      /\ \A a \in Addrs : verifyCount[n][a] = 0
      /\ verifiers[n] = {}
      /\ \A c \in ConnIds :
           conns[c].cl = n => ~IsEncrypted(conns[c]) /\ ~IsVerify(conns[c])

\* C10 happens: a node without a password has seen a peer that has one and
\* has written a chat line to it
C10_Witness ==
  /\ password["n1"] = << >> /\ password["n2"] # << >>
  /\ seenCount["n1"]["n2"] = 1
  /\ \E i \in 1..Len(items["n1"]) : items["n1"][i].desc = "n2"
  /\ \E c \in ConnIds :
       conns[c].cl = "n1" /\ conns[c].sv = "n2" /\ HasPrefix(conns[c].out, S_CHAT)

\* C11: the step in which sendChatCmd writes its line frames it ECHAT when,
\* at that moment, the node has a password and Update has stored secure=true
\* for the destination, and CHAT when the flag is false or absent.
C11_DecisionAtSendTime ==
  [][\A c \in ConnIds :
       ChatWritten("n1", c) =>
         IF password["n1"] # << >> /\ conns'[c].sv \in DOMAIN securePeers["n1"]
            /\ securePeers["n1"][conns'[c].sv]
         THEN HasPrefix(conns'[c].out, S_ECHAT)
         ELSE HasPrefix(conns'[c].out, S_CHAT)]_vars

\* C11 happens: one chat went out in the clear before the verification of
\* "n2" was handled and the next one went out encrypted after it
C11_Witness ==
  /\ IsSecure(securePeers["n1"], "n2")
  /\ \E c, d \in ConnIds :
       /\ conns[c].cl = "n1" /\ conns[c].sv = "n2" /\ HasPrefix(conns[c].out, S_CHAT)
       /\ conns[d].cl = "n1" /\ conns[d].sv = "n2" /\ HasPrefix(conns[d].out, S_ECHAT)

\* C12: a producer that has an event to publish is never held up by the
\* consumer: whenever the UDP listener, a verifier or a connection handler
\* stands at its send on netChan, the send can proceed.
C12_ProducersNeverBlock ==
  /\ udp["n1"].pc = "send" => ENABLED UDPPublish("n1")
  /\ \A v \in verifiers["n1"] : v.pc = "send" => ENABLED VerifyPublish("n1", v)
  /\ \A c \in ConnIds :
       (conns[c].sv = "n1" /\ conns[c].h = "send") => ENABLED HandlerPublish(c)

\* C14: the chat event a handler publishes for a CHAT line written by
\* sendChatCmd has the sender's name as sender and the typed text as content.
C14_ChatVerbatim ==
  \A c \in ConnIds :
    (conns[c].cl \in Nodes /\ HasPrefix(conns[c].out, S_CHAT) /\ conns[c].h = "send")
      => conns[c].hmsg = chatMsg(userName[conns[c].cl], conns[c].typed)

\* C19: a VERIFY line with an empty fingerprint is dropped silently: once
\* handled, nothing was written back on the connection and it left no event.
C19_MalformedVerifyDropped ==
  \A c \in ConnIds :
    (conns[c].sv = "n1" /\ conns[c].out = Line(S_VERIFY) /\ conns[c].h = "done")
      => conns[c].in = << >> /\ conns[c].hmsg = NoMsg

\* the handler on "n2" has parsed the chat line of "a" on connection c and
\* stands at its send while a receive on the netChan of "n2" is outstanding
ChatAwaitsConsumer(c) ==
  /\ conns[c].cl = "n1" /\ conns[c].sv = "n2"
  /\ conns[c].out = Line(S_CHAT \o <<97, Colon>> \o conns[c].typed)
  /\ conns[c].h = "send"
  /\ running["n2"] /\ waiters["n2"] > 0

\* C13: a chat t that the passwordless node "a" has written to a running,
\* consuming peer is eventually published there: the handler's event is
\* chatMsg{a, t}, it is received from netChan and the handler ends, having
\* sent that one event.
C13_ChatDelivered ==
  /\ [](\A c \in ConnIds :
          (conns[c].cl = "n1" /\ conns[c].h = "send")
            => conns[c].hmsg = chatMsg(<<97>>, conns[c].typed))
  /\ \A c \in ConnIds : ChatAwaitsConsumer(c) ~> (conns[c].h = "done")

\* the payload that follows the header line of a connection
Payload(c) == ReadString(conns[c].out).rest

\* the handler of c on "n1" reads its header in this step
HeaderRead(c) ==
  conns[c].sv = "n1" /\ conns[c].h = "wait" /\ conns'[c].h # "wait"

\* the handler of c on "n1" comes back from reading the payload in this step
PayloadRead(c) ==
  /\ conns[c].sv = "n1" /\ conns[c].h \in {"copy", "ecopy"}
  /\ conns'[c].h \notin {"copy", "ecopy"}

\* a handler on "n1" that leaves its send has handed over the one event it
\* held and is over; no other step of a handler adds an event
PublishesOnce ==
  \A c \in ConnIds :
    /\ (conns[c].sv = "n1" /\ conns[c].h = "send" /\ conns'[c].h # "send")
         => /\ conns'[c].h = "done"
            /\ inbox'["n1"] = inbox["n1"] (+) SetToBag({conns[c].hmsg})
    /\ (HeaderRead(c) \/ PayloadRead(c)) => inbox' = inbox

\* bytes that are an encryption of one of the plaintexts under password pw
EncryptedUnder(bytes, pw, plaintexts) ==
  /\ pw # << >>
  /\ \E pt \in plaintexts : \E r \in Rnd : bytes = encryptData(pt, pw, r)

ReceivedG == S_RECEIVED \o <<103>>      \* "received_g"
ReceivedF == S_RECEIVED \o <<102>>      \* "received_f"

\* C15: a node without a password never has received_g, the file of the
\* EFILE:g requests; when its handler has read an EFILE payload it has
\* written no file and holds the status "Encrypted file received but no
\* password set: g", the one event it publishes.
C15_NoPasswordNoFile ==
  /\ [](password["n1"] = << >> => ReceivedG \notin DOMAIN files["n1"])
  /\ [][password["n1"] = << >> =>
          /\ PublishesOnce
          /\ \A c \in ConnIds :
               (PayloadRead(c) /\ HasPrefix(conns[c].out, S_EFILE)) =>
                  /\ files' = files
                  /\ conns'[c].h = "send"
                  /\ conns'[c].hmsg = transferStatusMsg(
                       "Encrypted file received but no password set: ", <<103>>)]_vars

\* C15 happens: a node without a password has handled an EFILE:g request
\* and published its status
C15_Witness ==
  /\ password["n1"] = << >>
  /\ \E c \in ConnIds :
       /\ HasPrefix(conns[c].out, S_EFILE) /\ conns[c].h = "done"
       /\ conns[c].hmsg.type = "transferStatusMsg"
       /\ ReceivedG \notin DOMAIN files["n1"]

\* C16: when a node with a password has read an EFILE payload that is no
\* encryption under its password, the directory is unchanged and the one
\* event it holds is the failure status; when the payload is an encryption
\* of a plaintext under its password, received_g holds that plaintext and
\* the event is the success status.
C16_DecryptOrNoFile ==
  [][password["n1"] # << >> =>
       /\ PublishesOnce
       /\ \A c \in ConnIds :
            (PayloadRead(c) /\ HasPrefix(conns[c].out, S_EFILE)) =>
               /\ conns'[c].h = "send"
               /\ IF EncryptedUnder(Payload(c), password["n1"], FileContents)
                  THEN /\ ReceivedG \in DOMAIN files'["n1"]
                       /\ Payload(c) \in {encryptData(files'["n1"][ReceivedG],
                                                      password["n1"], r) : r \in Rnd}
                       /\ conns'[c].hmsg =
                            transferStatusMsg("Received (encrypted): ", <<103>>)
                  ELSE /\ files' = files
                       /\ conns'[c].hmsg =
                            transferStatusMsg("Failed to decrypt file: ", <<103>>)]_vars

\* C16 happens: a payload failed to decrypt on a node with a password, no
\* file was written and the failure status was published
C16_Witness ==
  /\ password["n1"] # << >>
  /\ ReceivedG \notin DOMAIN files["n1"]
  /\ \E c \in ConnIds :
       /\ HasPrefix(conns[c].out, S_EFILE) /\ conns[c].h = "done"
       /\ conns[c].hmsg = transferStatusMsg("Failed to decrypt file: ", <<103>>)

\* C17: when the handler has read an ECHAT:a:<payload> line whose payload is
\* no encryption under the local password (or there is no local password),
\* it holds one chat event from "a" whose content is one of the two
\* placeholders, which it publishes once before it ends.
C17_PlaceholderOnFailure ==
  [][/\ PublishesOnce
     /\ \A c \in ConnIds :
          (/\ HeaderRead(c) /\ HasPrefix(conns[c].out, S_ECHAT)
           /\ ~EncryptedUnder(RequestFingerprint(Drop(conns[c].out, 1)),
                              password["n1"], Texts)) =>
             /\ conns'[c].h = "send"
             /\ conns'[c].hmsg \in {chatMsg(<<97>>, S_NODECRYPT),
                                    chatMsg(<<97>>, S_NOPASS)}
             /\ files' = files]_vars

\* C17 happens: a node with password "q" got a chat encrypted under "p" and
\* published the placeholder for it
C17_Witness ==
  /\ password["n1"] = <<113>>
  /\ \E c \in ConnIds :
       /\ conns[c].out = S_ECHAT \o <<97, Colon>> \o encryptData(<<104>>, <<112>>, 1) \o <<NL>>
       /\ conns[c].h = "done"
       /\ conns[c].hmsg = chatMsg(<<97>>, S_NODECRYPT)

\* the first line starts with one of the five known prefixes
KnownKind(out) ==
  \E pre \in {S_FILE, S_EFILE, S_CHAT, S_ECHAT, S_VERIFY} : HasPrefix(out, pre)

\* C18: the step in which a handler reads a first line of no known kind ends
\* the handler and closes the connection; it writes nothing back, prepares
\* and publishes no event and creates no file.
C18_UnknownDropped ==
  [][\A c \in ConnIds :
       (HeaderRead(c) /\ ~KnownKind(conns[c].out)) =>
          /\ conns'[c].h = "done" /\ conns'[c].sClosed
          /\ conns'[c].in = << >> /\ conns'[c].hmsg = NoMsg
          /\ UNCHANGED <<files, inbox, waiters>>]_vars

\* C18 happens: the line "HELLO" has been handled
C18_Witness ==
  \E c \in ConnIds :
    /\ conns[c].sv = "n1" /\ conns[c].out = <<72, 69, 76, 76, 79, NL>>
    /\ conns[c].h = "done" /\ conns[c].sClosed

\* C20: on a FILE:f connection the step that reads the header writes
\* ACCEPTED and creates received_f empty, no payload byte in it; the step
\* that ends the payload read leaves the whole payload in received_f and
\* only then holds the status "Received: f", which is published once.
C20_FileReceiveOrder ==
  [][/\ PublishesOnce
     /\ \A c \in ConnIds :
          HasPrefix(conns[c].out, S_FILE) =>
            /\ HeaderRead(c) =>
                 /\ conns'[c].in = Line(S_ACCEPTED)
                 /\ conns'[c].h = "copy" /\ conns'[c].hmsg = NoMsg
                 /\ ReceivedF \in DOMAIN files'["n1"]
                 /\ files'["n1"][ReceivedF] = << >>
            /\ PayloadRead(c) =>
                 /\ conns[c].in = Line(S_ACCEPTED)
                 /\ ReceivedF \in DOMAIN files'["n1"]
                 /\ files'["n1"][ReceivedF] = Payload(c)
                 /\ conns'[c].h = "send"
                 /\ conns'[c].hmsg = transferStatusMsg("Received: ", <<102>>)]_vars

\* C20 happens: a FILE:f connection is over, its payload "x" is in
\* received_f and its status was published
C20_Witness ==
  /\ ReceivedF \in DOMAIN files["n1"] /\ files["n1"][ReceivedF] = <<120>>
  /\ \E c \in ConnIds :
       /\ HasPrefix(conns[c].out, S_FILE) /\ conns[c].h = "done"
       /\ conns[c].hmsg = transferStatusMsg("Received: ", <<102>>)

\* the handler of c on "n1" stands at its send on netChan with event e
AtSend(c, e) ==
  conns[c].sv = "n1" /\ conns[c].h = "send" /\ conns[c].hmsg = e

\* the handler of c has come back from its send and closed the connection
Over(c) == conns[c].h = "done" /\ conns[c].sClosed

\* C15, the whole statement: a node without a password never creates
\* received_g and holds the "no password set" status after an EFILE:g
\* payload, and that status is published: the handler that holds it gets
\* past its send.
C15_StatusPublished ==
  /\ C15_NoPasswordNoFile
  /\ \A c \in ConnIds :
       (/\ password["n1"] = << >>
        /\ AtSend(c, transferStatusMsg(
             "Encrypted file received but no password set: ", <<103>>)))
         ~> Over(c)

\* C16, the whole statement: a file is written exactly when the payload
\* decrypts, and the failure status of a payload that does not decrypt is
\* published: the handler that holds it gets past its send.
C16_FailurePublished ==
  /\ C16_DecryptOrNoFile
  /\ \A c \in ConnIds :
       AtSend(c, transferStatusMsg("Failed to decrypt file: ", <<103>>))
         ~> Over(c)

\* C17, the whole statement: an undecryptable ECHAT line makes the handler
\* hold one placeholder chat event, and the handler publishes it and
\* finishes.
C17_HandlerFinishes ==
  /\ C17_PlaceholderOnFailure
  /\ \A c \in ConnIds :
       (AtSend(c, chatMsg(<<97>>, S_NODECRYPT)) \/ AtSend(c, chatMsg(<<97>>, S_NOPASS)))
         ~> Over(c)

\* C20, the whole statement: ACCEPTED first, then the payload in
\* received_f, then the status "Received: f", and that status is
\* published: the handler that holds it gets past its send.
C20_StatusAfterFile ==
  /\ C20_FileReceiveOrder
  /\ \A c \in ConnIds :
       AtSend(c, transferStatusMsg("Received: ", <<102>>)) ~> Over(c)

\* C21: on every connection the server has accepted, what it has written
\* back is nothing or the line ACCEPTED; it is ACCEPTED only when the
\* client's first line starts with FILE: or EFILE:, and it is nothing on
\* CHAT and ECHAT connections.
C21_AcceptedOnlyForFiles ==
  \A c \in ConnIds :
    conns[c].sv = "n1" =>
      /\ conns[c].in \in {<< >>, Line(S_ACCEPTED)}
      /\ conns[c].in = Line(S_ACCEPTED) =>
           (HasPrefix(conns[c].out, S_FILE) \/ HasPrefix(conns[c].out, S_EFILE))
      /\ IsChat(conns[c]) => conns[c].in = << >>

\* C21 happens: a file was received, and now the handler of a CHAT
\* connection has published its chat event and is over, with nothing
\* written back
C21_Witness ==
  /\ ReceivedF \in DOMAIN files["n1"]
  /\ \E c \in ConnIds :
       /\ conns[c].sv = "n1" /\ HasPrefix(conns[c].out, S_CHAT)
       /\ conns[c].h = "done" /\ conns[c].hmsg.type = "chatMsg"
       /\ conns[c].in = << >>

\* the dial of command k of "n1" fails in this step: the command was about
\* to dial and is over without a connection, or the process is
DialFailed(k) ==
  /\ k \in cmds["n1"] /\ k.pc = "dial"
  /\ \/ k \notin cmds'["n1"] /\ cmds'["n1"] \subseteq cmds["n1"]
     \/ ~running'["n1"]

\* C22: nothing but the user ends the process, and the step in which the
\* dial of sendChatCmd or sendFileCmd fails hands Update one
\* transfer-status message and leaves the process running.
C22_SendFailureNotFatal ==
  /\ [](running["n1"])
  /\ [][\A k \in cmds["n1"] :
          DialFailed(k) =>
            /\ running'["n1"]
            /\ \E e \in BagToSet(inbox'["n1"]) :
                 /\ e.type = "transferStatusMsg"
                 /\ inbox'["n1"] = inbox["n1"] (+) SetToBag({e})]_vars

TcpGone == tcp["n1"] \in {"failed", "dead"}
UdpGone == udp["n1"].pc \in {"failed", "dead"}

\* the "TCP listen error" and "UDP listen error" events
TcpError == transferStatusMsg("TCP listen error: ", << >>)
UdpError == transferStatusMsg("UDP listen error: ", << >>)

\* a loop whose bind failed never comes back: the TCP server accepts no
\* connection, the UDP listener takes no datagram; its status is handed
\* over in the step that ends the loop and in no other step
FailedLoopStops ==
  /\ TcpGone =>
       /\ TcpGone'
       /\ \A c \in ConnIds : conns[c] = NoConn => conns'[c] = NoConn
  /\ UdpGone =>
       /\ UdpGone'
       /\ udp'["n1"].data = udp["n1"].data /\ discovered' = discovered
  /\ (CopiesIn(TcpError, inbox'["n1"]) > CopiesIn(TcpError, inbox["n1"]))
       <=> (tcp["n1"] = "failed" /\ tcp'["n1"] = "dead")
  /\ (CopiesIn(UdpError, inbox'["n1"]) > CopiesIn(UdpError, inbox["n1"]))
       <=> (udp["n1"].pc = "failed" /\ udp'["n1"].pc = "dead")
  /\ BagCardinality(inbox'["n1"]) <= BagCardinality(inbox["n1"]) + 1

\* the other loop goes on: with the TCP server gone the UDP listener still
\* takes datagrams, with the UDP listener gone the TCP server still accepts
OtherLoopRuns ==
  /\ (TcpGone /\ udp["n1"].pc = "read") => ENABLED UDPReceive("n1", {Ghost})
  /\ (UdpGone /\ tcp["n1"] = "listening" /\ Cardinality(FreeIds) > 1)
       => ENABLED GhostConnect("n1")

\* C23: a listener whose bind failed stops for good while the other loop
\* goes on, and its one status event is published: the loop that stands at
\* the send of its status gets past it.
C23_BindFailureOneStatus ==
  /\ []OtherLoopRuns
  /\ [][FailedLoopStops]_vars
  /\ (tcp["n1"] = "failed") ~> (tcp["n1"] = "dead")
  /\ (udp["n1"].pc = "failed") ~> (udp["n1"].pc = "dead")

\* C24: every entry of the list of "n1" shows the secure flag that
\* sendChatCmd and sendFileCmd read for its address in securePeers.
C24_DisplayedFlagIsLookup ==
  \A i \in 1..Len(items["n1"]) :
    items["n1"][i].secure = IsSecure(securePeers["n1"], items["n1"][i].desc)

\* C25: on no node was passwordFingerprint, encryptData or decryptData
\* called with the empty password, and a node without a password has the
\* empty fingerprint and has made no such call at all.
C25_EmptyPasswordNeverKey ==
  \A n \in Nodes :
    /\ << >> \notin keyed[n]
    /\ password[n] = << >> => (passHash(n) = << >> /\ keyed[n] = {})

\* C25 happens: a node without a password has handled an encrypted chat
C25_Witness ==
  /\ password["n1"] = << >>
  /\ \E c \in ConnIds :
       /\ conns[c].sv = "n1" /\ HasPrefix(conns[c].out, S_ECHAT)
       /\ conns[c].h = "done" /\ conns[c].hmsg = chatMsg(<<97>>, S_NOPASS)

\* C26: what decryptData returns for the output of encryptData under the
\* same non-empty password is the payload, without an error.
C26_RoundTrip ==
  (bench.pc = "opened" /\ bench.p1 = bench.p2 /\ bench.p1 # << >>) =>
     (~bench.dec.err /\ bench.dec.val = bench.b)

\* C26 happens: the two-byte payload <<0, 255>> came back under "p"
C26_Witness ==
  /\ bench.pc = "opened" /\ bench.p1 = <<112>> /\ bench.p2 = <<112>>
  /\ bench.b = <<0, 255>> /\ bench.dec = [err |-> FALSE, val |-> <<0, 255>>]

\* C27: decryptData under a password other than the one encryptData was
\* given returns an error and no plaintext.
C27_CrossKeyFails ==
  (bench.pc = "opened" /\ bench.p1 # bench.p2) =>
     (bench.dec.err /\ bench.dec.val = << >>)

\* C27 happens: a payload encrypted under "p" was refused under "q"
C27_Witness ==
  /\ bench.pc = "opened" /\ bench.p1 = <<112>> /\ bench.p2 = <<113>>
  /\ bench.b = <<104>> /\ bench.dec.err


\* the blob of the ECHAT line a client wrote: what follows the second colon
EChatBlob(out) == TrimSpace(SplitN2(Drop(ReadString(out).line, Len(S_ECHAT)))[2])

\* connection c carried an ECHAT line with a sender and a blob to "n1", which
\* has a password, and the handler has dealt with the line
EChatHandled(c) ==
  /\ conns[c].sv = "n1" /\ HasPrefix(conns[c].out, S_ECHAT)
  /\ Len(SplitN2(Drop(ReadString(conns[c].out).line, Len(S_ECHAT)))) = 2
  /\ password["n1"] # << >>
  /\ conns[c].h \in {"send", "done"}

\* C28: on a node with a password, an ECHAT blob that is not base64, one that
\* is shorter than the nonce and one that fails authentication are answered
\* alike: whatever the cause, the handler holds the same placeholder chat
\* event for the sender and nothing is written on the connection.
C28_FailuresAlike ==
  \A c \in ConnIds :
    (EChatHandled(c) /\ FailureCause(EChatBlob(conns[c].out), password["n1"]) # "none")
      => /\ conns[c].hmsg = chatMsg(<<97>>, S_NODECRYPT)
         /\ conns[c].in = << >>

\* C28 happens: a blob shorter than the nonce has been handled by a node
\* with a password, which published the placeholder and wrote nothing back
C28_Witness ==
  \E c \in ConnIds :
    /\ EChatHandled(c) /\ conns[c].h = "done"
    /\ FailureCause(EChatBlob(conns[c].out), password["n1"]) = "short"
    /\ conns[c].hmsg = chatMsg(<<97>>, S_NODECRYPT) /\ conns[c].in = << >>

\* C28, third cause: a blob that is not base64 has been handled too
C28_WitnessBase64 ==
  \E c \in ConnIds :
    /\ EChatHandled(c) /\ conns[c].h = "done"
    /\ FailureCause(EChatBlob(conns[c].out), password["n1"]) = "base64"


\* what an "esc" step of "n1" does, by the screen it is pressed on
EscStep ==
  KeyEsc("n1") =>
    /\ uiState["n1"] \in 1..4 => (uiState'["n1"] = 0 /\ running'["n1"])
    /\ (uiState["n1"] = 0 /\ filtering["n1"])
         => (running'["n1"] /\ uiState'["n1"] = 0 /\ ~filtering'["n1"])
    /\ (uiState["n1"] = 0 /\ ~filtering["n1"]) => ~running'["n1"]

\* C29: the screen state is always one of 0..4; "esc" and "ctrl+c" are read
\* on every screen while the program runs; an "esc" on screen 1, 2, 3 or 4
\* goes back to screen 0 and the program keeps running; an "esc" on screen 0
\* ends the program when the list is not filtering and only ends the
\* filtering when it is; a "ctrl+c" ends the program on every screen.
C29_ScreenMachine ==
  /\ [](uiState["n1"] \in 0..4)
  /\ [](running["n1"] => (ENABLED KeyEsc("n1") /\ ENABLED Quit("n1")))
  /\ [][EscStep]_vars
  /\ [][Quit("n1") => ~running'["n1"]]_vars

\* C29 happens: the user picked a file, which shows the progress screen
\* (state 2), and is back on the list with the program running, which only
\* an "esc" does here
C29_Witness ==
  /\ running["n1"] /\ uiState["n1"] = 0
  /\ \E k \in cmds["n1"] : k.kind = "file"


\* the first line of c never ends: the client closed before a newline
HeaderCut(c) == ReadString(conns[c].out).err

\* C30: the step in which a handler's header read fails, the connection
\* having closed before a newline, ends the handler: it writes no reply,
\* prepares and publishes no event and creates no file, whatever the bytes
\* read so far begin with.
C30_CutHeaderDropped ==
  [][\A c \in ConnIds :
       (HeaderRead(c) /\ HeaderCut(c)) =>
          /\ conns'[c].h = "done" /\ conns'[c].sClosed
          /\ conns'[c].in = << >> /\ conns'[c].hmsg = NoMsg
          /\ UNCHANGED <<files, inbox, waiters>>]_vars


\* C31: on no node does a command stand at its read of m.securePeers while
\* Update has a peerVerifiedMsg to handle, whose handling writes the map:
\* the read and the write never overlap, and the process never ends on the
\* runtime's concurrent-map-access fault.
C31_MapAccessSerialized ==
  /\ [](\A n \in Nodes : ~(MapReaders(n) # {} /\ MapWriters(n) # {}))
  /\ [][\A n \in Nodes : ~MapFault(n)]_vars


\* C32: for every address at most one peer-verified event is ever published,
\* and once the secure flag of an address is written no step changes it: a
\* flag that is false stays false whatever is announced later.
C32_NoRetry ==
  /\ [](\A a \in Addrs : verifiedCount["n1"][a] <= 1)
  /\ [][\A a \in Addrs :
         a \in DOMAIN securePeers["n1"] =>
           /\ a \in DOMAIN securePeers'["n1"]
           /\ securePeers'["n1"][a] = securePeers["n1"][a]]_vars

\* C32 happens: the verification of the foreign host failed and its flag is
\* false; the listener has since handled an announcement of the same address
\* under another name, and no verifier is running
C32_Witness ==
  LET u == udp["n1"] IN
  /\ Ghost \in DOMAIN securePeers["n1"] /\ ~securePeers["n1"][Ghost]
  /\ u.pc = "read" /\ u.ip = Ghost /\ HasPrefix(u.data, S_IAM)
  /\ Drop(u.data, Len(S_IAM)) # discovered["n1"][Ghost]
  /\ Drop(u.data, Len(S_IAM)) # userName["n1"]
  /\ verifiers["n1"] = {}


\* C33: the consumer never stops listening: while the program runs, either
\* an event is on its way to Update, whose handling leaves a receive
\* outstanding, or a receive on netChan is outstanding; and handling an
\* event taken from netChan leaves a receive outstanding or an event that
\* will bring one.
C33_ConsumerKeepsListening ==
  /\ [](running["n1"] /\ inbox["n1"] = EmptyBag => waiters["n1"] >= 1)
  /\ [][Deliver("n1") => (waiters'["n1"] >= 1 \/ inbox'["n1"] # EmptyBag)]_vars


\* Update has handled the peer-seen event of address a: the list has its entry
SeenHandled(a) == \E i \in 1..Len(items["n1"]) : items["n1"][i].desc = a

\* C34: for every address, Update handles the peer-verified event only
\* after the peer-seen event: whenever the secure flag of an address has
\* been written, the list already has the entry of that address, also when
\* a status that a command returned has left a second receive outstanding.
C34_SeenBeforeVerified ==
  \A a \in Addrs : a \in DOMAIN securePeers["n1"] => SeenHandled(a)


\* an event that tells the user an encrypted message could not be opened
DecryptFailure(e) ==
  \/ e.type = "chatMsg" /\ e.content \in {S_NODECRYPT, S_NOPASS}
  \/ /\ e.type = "transferStatusMsg"
     /\ e.what \in {"Failed to decrypt file: ",
                    "Encrypted file received but no password set: "}

\* C35: a connection between two machines carries an ECHAT: or EFILE: line
\* only if the sender holds secure=true for the receiver, which it got from
\* a VMATCH, so both have the same password; and the receiver's handler of
\* such a connection never holds a could-not-decrypt placeholder or a
\* decryption-failure status.
C35_EncryptedAlwaysOpens ==
  \A c \in ConnIds :
    (conns[c].cl \in Nodes /\ conns[c].sv \in Nodes /\ IsEncrypted(conns[c])) =>
      /\ IsSecure(securePeers[conns[c].cl], conns[c].sv)
      /\ password[conns[c].cl] = password[conns[c].sv]
      /\ ~DecryptFailure(conns[c].hmsg)

\* C35 without its last part: what is encrypted goes to a verified peer that
\* has the same password
C35_EncryptedOnlyToVerified ==
  \A c \in ConnIds :
    (conns[c].cl \in Nodes /\ conns[c].sv \in Nodes /\ IsEncrypted(conns[c])) =>
      /\ IsSecure(securePeers[conns[c].cl], conns[c].sv)
      /\ password[conns[c].cl] = password[conns[c].sv]


\* the verifier of n for address a stands at pc
VerifierAt(n, a, pc) == \E v \in verifiers[n] : v.ip = a /\ v.pc = pc

\* the consumer of n has stopped and a producer of n stands at its send
Stalled(n) ==
  /\ running[n] /\ waiters[n] = 0 /\ inbox[n] = EmptyBag
  /\ \/ udp[n].pc = "send"
     \/ \E v \in verifiers[n] : v.pc = "send"
     \/ \E c \in ConnIds : conns[c].sv = n /\ conns[c].h = "send"

\* C36: a VERIFY request whose line has arrived can always be read, whatever
\* the state of the node's consumer and producers; reading it ends the
\* handler with VMATCH or VNOMATCH written back; and a verifier of one
\* machine that has sent its request to the other never waits on anything
\* that waits in turn: its answer has arrived and it can go on to its
\* result, or the handler of its request can read the request.
C36_VerifyIndependentOfBus ==
  /\ \A c \in ConnIds :
       (conns[c].sv \in Nodes /\ IsVerify(conns[c])) =>
          /\ conns[c].h \in {"wait", "done"}
          /\ (conns[c].h = "wait" /\ ~ReadString(conns[c].out).err
                /\ running[conns[c].sv]) => HeaderArrived(c)
          /\ conns[c].h = "done" =>
               conns[c].in \in {Line(S_VMATCH), Line(S_VNOMATCH)}
  /\ \A n \in Nodes : \A v \in verifiers[n] :
       (v.pc = "read" /\ v.ip \in Nodes) =>
          AnswerArrived(n, v) \/ HeaderArrived(v.conn)

\* C36 happens: the consumer of "n2" has stopped; its verifier has the
\* answer of "n1" and stands at a send that nobody receives, and "n2" has
\* answered the VERIFY request of "n1"
C36_Witness ==
  /\ waiters["n2"] = 0 /\ inbox["n2"] = EmptyBag
  /\ VerifierAt("n2", "n1", "send")
  /\ \E c \in ConnIds :
       /\ conns[c].cl = "n1" /\ conns[c].sv = "n2" /\ IsVerify(conns[c])
       /\ conns[c].h = "done" /\ conns[c].in # << >>


\* C37: while the list is filtering (state 0), no step takes the user to
\* another screen: whatever key is pressed, the state is 0 afterwards.
C37_FilteringKeepsScreen ==
  [][(uiState["n1"] = 0 /\ filtering["n1"]) => uiState'["n1"] = 0]_vars


\* C38: handling an event that came from the network leaves the user on
\* the screen they are on when that is the file picker (1), the chat (3) or
\* the config screen (4).
C38_EventsKeepScreen ==
  [][(Deliver("n1") /\ uiState["n1"] \in {1, 3, 4})
       => uiState'["n1"] = uiState["n1"]]_vars


\* sendFileCmd of "n1" returns "Sent: <name>" for command k in this step
SentReported(k) ==
  /\ k \in cmds["n1"] /\ k.kind = "file" /\ k.pc = "ack"
  /\ k \notin cmds'["n1"] /\ running'["n1"]
  /\ CopiesIn(transferStatusMsg("Sent: ", k.fname), inbox'["n1"])
       > CopiesIn(transferStatusMsg("Sent: ", k.fname), inbox["n1"])

\* C39: the step in which sendFileCmd returns "Sent: <name>" finds the line
\* ACCEPTED as the receiver's reply to the header and writes the payload on
\* the connection.
C39_SentOnlyIfAccepted ==
  [][\A k \in cmds["n1"] :
       SentReported(k) =>
         /\ ~ReadString(conns[k.conn].in).err
         /\ TrimSpace(ReadString(conns[k.conn].in).line) = S_ACCEPTED
         /\ Len(conns'[k.conn].out) > Len(conns[k.conn].out)]_vars


\* request r of the command-line build is parked and has no answer yet
AwaitsAnswer(r) == cli.req[r].pc = "parked" /\ cli.req[r].answer = << >>

\* C40: in the command-line build a parked request that has no answer yet
\* is the pending one, the one the next accept or reject answers: no later
\* request takes its place, and a request that arrived during a chat
\* session is parked once the session is over.
C40_ParkedStaysAnswerable ==
  \A r \in ReqIds : AwaitsAnswer(r) => cli.pendingConn = r

\* C40, the part about sessions: a handler that arrived during an accepted
\* session waits for connMutex and parks its connection after the session
\* has cleared pendingConn, so it is not lost: during a session nothing is
\* parked, and the session's own request is the pending one.
C40_ParkedAfterSession ==
  [][/\ cli.main = "session" => \A r \in ReqIds : ~LegacyPark(r)
     /\ \A r \in ReqIds :
          (LegacyPark(r) /\ cli.pendingConn = 0) => cli'.pendingConn = r]_vars

=============================================================================
